---- MODULE Spec2Model ----
(***************************************************************************)
(* Risk-adaptive login engine of MyVisionBackend (src/handler.js with the   *)
(* heuristics of utils/cognitiveCheck.js and the OTP helpers of             *)
(* utils/emailService.js).                                                  *)
(*                                                                          *)
(* The DynamoDB table is the only shared state.  Every Lambda invocation is *)
(* a worker that runs one handler; a handler is cut at its awaited table    *)
(* operations (scan / put / update), the synchronous code after an awaited  *)
(* operation belongs to the step of that operation.  Time is a clock in     *)
(* minutes.  createdAt / updatedAt are not modelled (no handler reads them).*)
(***************************************************************************)
EXTENDS Integers, Sequences, FiniteSets, TLC

VARIABLES
  now,        \* wall clock, minutes
  store,      \* the users table: userId -> item
  nextUuid,   \* uuidv4(): the next fresh identifier
  pc,         \* per worker: position in its handler
  req,        \* per worker: the request being handled
  loc,        \* per worker: the handler's local variables
  resp,       \* per worker: the response of the finished handler
  reqLeft,    \* requests that may still be started
  logins,     \* history variable: every committed login of the current record
  sessions,   \* history variable: the login behind every step-up session id
  superseded  \* history variable: session ids overwritten by a later step-up

vars == <<now, store, nextUuid, pc, req, loc, resp, reqLeft, logins, sessions, superseded>>

----------------------------------------------------------------------------
(* Bounds of the model *)

StartTime == 60        \* the clock at the start of a run
MaxTime == 75          \* the clock stops here
TickMinutes == 5       \* granularity of the clock
MaxRequestsSeq == 3    \* requests of a run (Spec)
MaxRequestsRate == 3   \* requests of a run (SpecRate)
MaxRequestsHist == 3   \* requests of a run (SpecHist)
MaxRequestsOtp == 3    \* requests of a run (SpecOtp)
MaxRequestsConc == 2   \* requests of a run (SpecConc)
MaxRequestsBoth == 3   \* requests of a run (SpecBoth)
MaxClockHistory == 4   \* logins before an assessment (SpecClock)
MaxAttemptsLen == 6    \* recorded attempts before a rate-limit check (SpecLimit)
SeedAttempts == 3      \* failed logins before the run (SpecRate)
SeedHistory == 9       \* logins before the run (SpecHist)
SeedOtpAttempts == 2   \* wrong codes before the run (SpecOtp, SpecConc, SpecBoth)
PastPerWindow == 4     \* earlier logins per rate-limit window
HalfDay == 720         \* the later of the two times of day of an assessment (SpecAssess)

(* Program constants *)

MAX_OTP_ATTEMPTS == 3
RATE_LIMIT_WINDOW_MINUTES == 15
MAX_LOGIN_ATTEMPTS == 5
OTP_TTL_MINUTES == 5
HISTORY_KEEP == 10
MIN_PASSWORD_LENGTH == 8
TIME_MIN_HISTORY == 3
TIME_MAX_DEVIATION == 6

----------------------------------------------------------------------------
(* Values *)

Null == "null"                 \* null / undefined of a string attribute
NoTime == -1                   \* null / undefined of a time attribute
NoNumber == -1                 \* undefined of a counter attribute
NoId == 0                      \* null / undefined of a uuid attribute
NullRec == [null |-> TRUE]     \* null / undefined of an object attribute

Workers == {1, 2}
Emails == {"a@x.io"}
Passwords == {"password1", "password2"}    \* accepted by signup
ShortPassword == "short"                    \* fewer than 8 characters
BadEmail == "not-an-email"                  \* fails the signup regex

(* an address nobody signed up with *)
UnknownEmail == "b@x.io"
Codes == {"111111", "222222"}

(* The client side of a request: source ip and user agent. *)
Events ==
  { [ip |-> "1.1.1.1", ua |-> "chrome-windows"],
    [ip |-> "2.2.2.2", ua |-> "chrome-windows"],
    [ip |-> "1.1.1.1", ua |-> "safari-mac"] }

----------------------------------------------------------------------------
(* utils/emailService.js *)

generateOTPExpiry(t) == t + OTP_TTL_MINUTES

isOTPExpired(otpExpiry, t) == IF otpExpiry = NoTime THEN TRUE ELSE t > otpExpiry

(* bcryptjs: hash and compare, a one-way digest that only its secret matches *)
(* sendSignupOTP and sendLoginOTP return { success: true } or { success: false,
   error }; the sends themselves are inside try blocks *)
DeliveryOutcomes == {"sent", "failed"}

bcryptHash(password) == <<"bcrypt", password>>

bcryptCompare(password, digest) == digest = bcryptHash(password)

(* signup's input checks: the regex and password.length *)
PasswordLength(p) == IF p = ShortPassword THEN 5 ELSE 9

(* variant: the regex accepts every string *)
EmailWellFormed_Any(e) == TRUE

EmailWellFormed(e) == e \in Emails

----------------------------------------------------------------------------
(* utils/cognitiveCheck.js *)

extractIPAddress(event) == IF event.ip = Null THEN "unknown" ELSE event.ip

(* geoip.lookup: the addresses the database knows *)
GeoLookup(ip) ==
  CASE ip = "1.1.1.1" -> [country |-> "US", region |-> "CA", city |-> "Los Angeles",
                          timezone |-> "America/Los_Angeles"]
    [] ip = "2.2.2.2" -> [country |-> "FR", region |-> "IDF", city |-> "Paris",
                          timezone |-> "Europe/Paris"]
    [] OTHER -> NullRec

getIPLocation(ip) ==
  IF ip = Null \/ ip = "unknown"
  THEN [country |-> "unknown", region |-> "unknown", city |-> "unknown"]
  ELSE IF GeoLookup(ip) = NullRec
       THEN [country |-> "unknown", region |-> "unknown", city |-> "unknown"]
       ELSE GeoLookup(ip)

(* UAParser: browser and os are "<name> <version>", kept as their words in order *)
getDeviceFingerprint(event) ==
  CASE event.ua = "chrome-windows" ->
         [browser |-> <<"Chrome", "120.0">>, os |-> <<"Windows", "10">>,
          device |-> "desktop", deviceModel |-> "unknown"]
    [] event.ua = "safari-mac" ->
         [browser |-> <<"Safari", "17.1">>, os |-> <<"Mac", "OS", "14.1">>,
          device |-> "desktop", deviceModel |-> "unknown"]
    [] event.ua = "firefox-windows" ->
         [browser |-> <<"Firefox", "121.0">>, os |-> <<"Windows", "10">>,
          device |-> "desktop", deviceModel |-> "unknown"]
    [] event.ua = "chrome-mac" ->
         [browser |-> <<"Chrome", "120.0">>, os |-> <<"Mac", "OS", "14.1">>,
          device |-> "desktop", deviceModel |-> "unknown"]
    [] OTHER ->
         [browser |-> <<"unknown">>, os |-> <<"unknown">>,
          device |-> "desktop", deviceModel |-> "unknown"]

(* String.prototype.toLowerCase on one word *)
ToLowerCase(w) ==
  CASE w = "Chrome" -> "chrome" [] w = "Safari" -> "safari" [] w = "Firefox" -> "firefox"
    [] w = "Windows" -> "windows" [] w = "Mac" -> "mac" [] w = "OS" -> "os"
    [] OTHER -> w

(* s.toLowerCase().includes(t.toLowerCase().split(' ')[0]) on strings kept as words:
   none of the words used here is a proper substring of another *)
IncludesFirstWord(s, t) ==
  \E i \in 1..Len(s) : ToLowerCase(s[i]) = ToLowerCase(t[1])

(* variant: an address the database does not know is never a new location *)
isLocationSuspicious_KnownOnly(currentLocation, lastLocation) ==
  IF lastLocation = NullRec \/ lastLocation.country = "unknown" THEN FALSE
  ELSE IF currentLocation.country = "unknown" THEN FALSE
  ELSE IF currentLocation.country # lastLocation.country THEN TRUE
  ELSE currentLocation.region # lastLocation.region

(* The stored and the current location both come from getIPLocation, which never
   sets lat / lon, so the distance branch (lines 162-171) is not taken. *)
isLocationSuspicious(currentLocation, lastLocation) ==
  IF lastLocation = NullRec \/ lastLocation.country = "unknown" THEN FALSE
  ELSE IF currentLocation.country # lastLocation.country THEN TRUE
  ELSE currentLocation.region # lastLocation.region

(* variant: the device counts as new only when browser and OS have both changed *)
isDeviceSuspicious_Both(currentDevice, lastDevice) ==
  IF lastDevice = NullRec THEN FALSE
  ELSE /\ ~IncludesFirstWord(currentDevice.browser, lastDevice.browser)
       /\ ~IncludesFirstWord(lastDevice.browser, currentDevice.browser)
       /\ ~IncludesFirstWord(currentDevice.os, lastDevice.os)
       /\ ~IncludesFirstWord(lastDevice.os, currentDevice.os)

(* lines 180-199 *)
isDeviceSuspicious(currentDevice, lastDevice) ==
  IF lastDevice = NullRec THEN FALSE
  ELSE
    LET browserChanged ==
          /\ ~IncludesFirstWord(currentDevice.browser, lastDevice.browser)
          /\ ~IncludesFirstWord(lastDevice.browser, currentDevice.browser)
        osChanged ==
          /\ ~IncludesFirstWord(currentDevice.os, lastDevice.os)
          /\ ~IncludesFirstWord(lastDevice.os, currentDevice.os)
    IN browserChanged \/ osChanged

(* Date.prototype.getHours of a time in minutes *)
getHours(t) == (t \div 60) % 24

RECURSIVE SumHours(_)
SumHours(h) == IF h = <<>> THEN 0 ELSE getHours(Head(h).timestamp) + SumHours(Tail(h))

Abs(x) == IF x < 0 THEN -x ELSE x

(* variant: the deviation is not folded over midnight *)
isTimeSuspicious_NoWrap(loginHistory, t) ==
  IF Len(loginHistory) < TIME_MIN_HISTORY THEN FALSE
  ELSE Abs(Len(loginHistory) * getHours(t) - SumHours(loginHistory))
         > TIME_MAX_DEVIATION * Len(loginHistory)

(* avgHour is a quotient: the comparison is made on n * deviation, n = length.
   min(d, 24 - d) > 6 *)
isTimeSuspicious(loginHistory, t) ==
  IF Len(loginHistory) < TIME_MIN_HISTORY THEN FALSE
  ELSE
    LET n == Len(loginHistory)
        deviationN == Abs(n * getHours(t) - SumHours(loginHistory))
        other == 24 * n - deviationN
        normalizedN == IF deviationN < other THEN deviationN ELSE other
    IN normalizedN > TIME_MAX_DEVIATION * n

(* variant: a timestamp exactly one window old still counts *)
RecentAttempts_Inclusive(attempts, windowMinutes, t) ==
  Cardinality({i \in 1..Len(attempts) : attempts[i] >= t - windowMinutes})

(* attempts.filter(timestamp => new Date(timestamp) > windowStart).length *)
RecentAttempts(attempts, windowMinutes, t) ==
  Cardinality({i \in 1..Len(attempts) : attempts[i] > t - windowMinutes})

(* variant: the limit is reached only above maxAttempts *)
checkRateLimit_Above(attempts, windowMinutes, maxAttempts, t) ==
  [limited |-> RecentAttempts(attempts, windowMinutes, t) > maxAttempts,
   remainingAttempts |-> maxAttempts]

checkRateLimit(attempts, windowMinutes, maxAttempts, t) ==
  IF Len(attempts) = 0
  THEN [limited |-> FALSE, remainingAttempts |-> maxAttempts]
  ELSE LET recent == RecentAttempts(attempts, windowMinutes, t)
       IN [limited |-> recent >= maxAttempts,
           remainingAttempts |-> IF maxAttempts - recent > 0
                                 THEN maxAttempts - recent ELSE 0]

(* variant: an unusual time is reported but does not make the login suspicious *)
performCognitiveCheck_TimeIgnored(event, userProfile, t) ==
  LET currentIP == extractIPAddress(event)
      currentLocation == getIPLocation(currentIP)
      currentDevice == getDeviceFingerprint(event)
      locationSuspicious ==
        IF userProfile.lastLoginIP # Null /\ userProfile.lastLoginLocation # NullRec
        THEN isLocationSuspicious(currentLocation, userProfile.lastLoginLocation)
        ELSE FALSE
      deviceSuspicious ==
        IF userProfile.lastLoginDevice # NullRec
        THEN isDeviceSuspicious(currentDevice, userProfile.lastLoginDevice)
        ELSE FALSE
      timeSuspicious ==
        IF Len(userProfile.loginHistory) >= TIME_MIN_HISTORY
        THEN isTimeSuspicious(userProfile.loginHistory, t)
        ELSE FALSE
  IN [locationSuspicious |-> locationSuspicious,
      deviceSuspicious |-> deviceSuspicious,
      timeSuspicious |-> timeSuspicious,
      reasons |->
        (IF locationSuspicious THEN <<"Login from new location">> ELSE <<>>)
        \o (IF deviceSuspicious THEN <<"Login from new device or browser">> ELSE <<>>)
        \o (IF timeSuspicious THEN <<"Login at unusual time">> ELSE <<>>),
      suspicious |-> locationSuspicious \/ deviceSuspicious,
      currentIP |-> currentIP,
      currentLocation |-> currentLocation,
      currentDevice |-> currentDevice]

(* variant: a profile without a last device makes every device a new one *)
performCognitiveCheck_FirstDeviceNew(event, userProfile, t) ==
  LET currentIP == extractIPAddress(event)
      currentLocation == getIPLocation(currentIP)
      currentDevice == getDeviceFingerprint(event)
      locationSuspicious ==
        IF userProfile.lastLoginIP # Null /\ userProfile.lastLoginLocation # NullRec
        THEN isLocationSuspicious(currentLocation, userProfile.lastLoginLocation)
        ELSE FALSE
      deviceSuspicious ==
        IF userProfile.lastLoginDevice # NullRec
        THEN isDeviceSuspicious(currentDevice, userProfile.lastLoginDevice)
        ELSE TRUE
      timeSuspicious ==
        IF Len(userProfile.loginHistory) >= TIME_MIN_HISTORY
        THEN isTimeSuspicious(userProfile.loginHistory, t)
        ELSE FALSE
  IN [locationSuspicious |-> locationSuspicious,
      deviceSuspicious |-> deviceSuspicious,
      timeSuspicious |-> timeSuspicious,
      reasons |->
        (IF locationSuspicious THEN <<"Login from new location">> ELSE <<>>)
        \o (IF deviceSuspicious THEN <<"Login from new device or browser">> ELSE <<>>)
        \o (IF timeSuspicious THEN <<"Login at unusual time">> ELSE <<>>),
      suspicious |-> locationSuspicious \/ deviceSuspicious \/ timeSuspicious,
      currentIP |-> currentIP,
      currentLocation |-> currentLocation,
      currentDevice |-> currentDevice]

(* lines 250-298 *)
performCognitiveCheck(event, userProfile, t) ==
  LET currentIP == extractIPAddress(event)
      currentLocation == getIPLocation(currentIP)
      currentDevice == getDeviceFingerprint(event)
      locationSuspicious ==
        IF userProfile.lastLoginIP # Null /\ userProfile.lastLoginLocation # NullRec
        THEN isLocationSuspicious(currentLocation, userProfile.lastLoginLocation)
        ELSE FALSE
      deviceSuspicious ==
        IF userProfile.lastLoginDevice # NullRec
        THEN isDeviceSuspicious(currentDevice, userProfile.lastLoginDevice)
        ELSE FALSE
      timeSuspicious ==
        IF Len(userProfile.loginHistory) >= TIME_MIN_HISTORY
        THEN isTimeSuspicious(userProfile.loginHistory, t)
        ELSE FALSE
  IN [locationSuspicious |-> locationSuspicious,
      deviceSuspicious |-> deviceSuspicious,
      timeSuspicious |-> timeSuspicious,
      reasons |->
        (IF locationSuspicious THEN <<"Login from new location">> ELSE <<>>)
        \o (IF deviceSuspicious THEN <<"Login from new device or browser">> ELSE <<>>)
        \o (IF timeSuspicious THEN <<"Login at unusual time">> ELSE <<>>),
      suspicious |-> locationSuspicious \/ deviceSuspicious \/ timeSuspicious,
      currentIP |-> currentIP,
      currentLocation |-> currentLocation,
      currentDevice |-> currentDevice]

----------------------------------------------------------------------------
(* The users table (DynamoDB DocumentClient) *)

(* The item signup writes: every attribute it does not name is absent. *)
SignupItem(userId, email, passwordHash, otp, otpExpiry) ==
  [userId |-> userId,
   email |-> email,
   passwordHash |-> passwordHash,
   isEmailVerified |-> FALSE,
   otp |-> otp,
   otpExpiry |-> otpExpiry,
   otpAttempts |-> 0,
   loginAttempts |-> <<>>,
   lastLoginTime |-> NoTime,
   lastLoginIP |-> Null,
   lastLoginLocation |-> NullRec,
   lastLoginDevice |-> NullRec,
   loginHistory |-> <<>>,
   loginOTP |-> Null,
   loginOTPExpiry |-> NoTime,
   loginOTPAttempts |-> NoNumber,
   pendingSessionId |-> NoId,
   pendingSessionData |-> Null]

(* scan with FilterExpression "email = :email": the keys of the matching items *)
ScanByEmail(email) == {u \in DOMAIN store : store[u].email = email}

(* scan with FilterExpression "pendingSessionId = :sessionId" *)
ScanBySession(sessionId) == {u \in DOMAIN store : store[u].pendingSessionId = sessionId}

(* put: the item replaces whatever is stored under its key *)
Put(item) ==
  [u \in DOMAIN store \cup {item.userId} |-> IF u = item.userId THEN item ELSE store[u]]

(* update: the expression is applied to the item stored under the key *)
Update(userId, item) == [store EXCEPT ![userId] = item]

(* JSON.stringify / JSON.parse of the session snapshot *)
JSONstringify(v) == [json |-> v]

JSONparse(s) == s.json

(* variant: the slice keeps the head of the list *)
SliceLast_Head(h, n) == IF Len(h) <= n THEN h ELSE SubSeq(h, 1, n)

(* loginHistory.slice(-10) *)
SliceLast(h, n) == IF Len(h) <= n THEN h ELSE SubSeq(h, Len(h) - n + 1, Len(h))

(* loginHistory.push(entry); loginHistory.slice(-10) *)
PushAndTrim(loginHistory, entry) == SliceLast(Append(loginHistory, entry), HISTORY_KEEP)

HistoryEntry(t, ip, location, device) ==
  [timestamp |-> t, ip |-> ip, location |-> location, device |-> device]

(* ---- the UpdateExpressions of the handlers, applied to the stored item ---- *)

(* variant: resending the signup code also resets the step-up attempts *)
ResendOTPUpdate_BothCounters(item, otp, otpExpiry) ==
  [item EXCEPT !.otp = otp, !.otpExpiry = otpExpiry, !.otpAttempts = 0,
               !.loginOTPAttempts = 0]

(* variant: a resent code inherits the attempts made on the code it replaces *)
ResendOTPUpdate_KeepsAttempts(item, otp, otpExpiry) ==
  [item EXCEPT !.otp = otp, !.otpExpiry = otpExpiry]

(* resendOTP: SET otp, otpExpiry, otpAttempts = 0 *)
ResendOTPUpdate(item, otp, otpExpiry) ==
  [item EXCEPT !.otp = otp, !.otpExpiry = otpExpiry, !.otpAttempts = 0]

(* variant: a wrong signup code costs two attempts *)
VerifyEmailIncrementUpdate_ByTwo(item) == [item EXCEPT !.otpAttempts = @ + 2]

(* verifyEmail: SET otpAttempts = otpAttempts + 1 *)
VerifyEmailIncrementUpdate(item) == [item EXCEPT !.otpAttempts = @ + 1]

(* verifyEmail: SET isEmailVerified = true, otp = null, otpExpiry = null, otpAttempts = 0 *)
VerifyEmailCommitUpdate(item) ==
  [item EXCEPT !.isEmailVerified = TRUE, !.otp = Null, !.otpExpiry = NoTime,
               !.otpAttempts = 0]

(* variant: attempts on a record that is not verified are not counted *)
RecordAttemptUpdate_OnlyVerified(item, t) ==
  IF item.isEmailVerified THEN [item EXCEPT !.loginAttempts = Append(@, t)] ELSE item

(* variant: the attempt replaces the list instead of being appended to it *)
RecordAttemptUpdate_Replace(item, t) == [item EXCEPT !.loginAttempts = <<t>>]

(* login: SET loginAttempts = list_append(if_not_exists(loginAttempts, []), [now]) *)
RecordAttemptUpdate(item, t) == [item EXCEPT !.loginAttempts = Append(@, t)]

(* variant: a step-up that finds a pending session keeps its session id *)
StepUpUpdate_KeepsSession(item, otp, otpExpiry, sessionId, cognitiveCheck, t) ==
  [item EXCEPT !.loginOTP = otp,
               !.loginOTPExpiry = otpExpiry,
               !.loginOTPAttempts = 0,
               !.pendingSessionId = IF @ = NoId THEN sessionId ELSE @,
               !.pendingSessionData =
                  JSONstringify([ip |-> cognitiveCheck.currentIP,
                                 location |-> cognitiveCheck.currentLocation,
                                 device |-> cognitiveCheck.currentDevice,
                                 timestamp |-> t])]

(* variant: the step-up also records the signals as the last login *)
StepUpUpdate_AsLastLogin(item, otp, otpExpiry, sessionId, cognitiveCheck, t) ==
  [item EXCEPT !.loginOTP = otp,
               !.loginOTPExpiry = otpExpiry,
               !.loginOTPAttempts = 0,
               !.pendingSessionId = sessionId,
               !.pendingSessionData =
                  JSONstringify([ip |-> cognitiveCheck.currentIP,
                                 location |-> cognitiveCheck.currentLocation,
                                 device |-> cognitiveCheck.currentDevice,
                                 timestamp |-> t]),
               !.lastLoginTime = t,
               !.lastLoginIP = cognitiveCheck.currentIP,
               !.lastLoginLocation = cognitiveCheck.currentLocation,
               !.lastLoginDevice = cognitiveCheck.currentDevice]

(* login, suspicious: SET loginOTP, loginOTPExpiry, loginOTPAttempts = 0,
   pendingSessionId, pendingSessionData *)
StepUpUpdate(item, otp, otpExpiry, sessionId, cognitiveCheck, t) ==
  [item EXCEPT !.loginOTP = otp,
               !.loginOTPExpiry = otpExpiry,
               !.loginOTPAttempts = 0,
               !.pendingSessionId = sessionId,
               !.pendingSessionData =
                  JSONstringify([ip |-> cognitiveCheck.currentIP,
                                 location |-> cognitiveCheck.currentLocation,
                                 device |-> cognitiveCheck.currentDevice,
                                 timestamp |-> t])]

(* login, normal: SET lastLoginTime, lastLoginIP, lastLoginLocation, lastLoginDevice,
   loginHistory *)
LoginCommitUpdate(item, t, cognitiveCheck, recentHistory) ==
  [item EXCEPT !.lastLoginTime = t,
               !.lastLoginIP = cognitiveCheck.currentIP,
               !.lastLoginLocation = cognitiveCheck.currentLocation,
               !.lastLoginDevice = cognitiveCheck.currentDevice,
               !.loginHistory = recentHistory]

(* variant: a wrong code also ends the pending session *)
VerifyLoginOTPIncrementUpdate_DropsSession(item) ==
  [item EXCEPT !.loginOTPAttempts = @ + 1, !.pendingSessionId = NoId]

(* verifyLoginOTP: SET loginOTPAttempts = loginOTPAttempts + 1 *)
VerifyLoginOTPIncrementUpdate(item) == [item EXCEPT !.loginOTPAttempts = @ + 1]

(* variant: the confirmation writes the login and leaves the step-up OTP in place *)
VerifyLoginOTPCommitUpdate_KeepsOTP(item, t, sessionData, recentHistory) ==
  [item EXCEPT !.lastLoginTime = t,
               !.lastLoginIP = sessionData.ip,
               !.lastLoginLocation = sessionData.location,
               !.lastLoginDevice = sessionData.device,
               !.loginHistory = recentHistory,
               !.pendingSessionId = NoId,
               !.pendingSessionData = Null]

(* variant: the confirmation leaves the last login's location as it was *)
VerifyLoginOTPCommitUpdate_KeepsLocation(item, t, sessionData, recentHistory) ==
  [item EXCEPT !.lastLoginTime = t,
               !.lastLoginIP = sessionData.ip,
               !.lastLoginDevice = sessionData.device,
               !.loginHistory = recentHistory,
               !.loginOTP = Null,
               !.loginOTPExpiry = NoTime,
               !.loginOTPAttempts = 0,
               !.pendingSessionId = NoId,
               !.pendingSessionData = Null]

(* variant: the confirmation leaves the session id on the record *)
VerifyLoginOTPCommitUpdate_KeepsSession(item, t, sessionData, recentHistory) ==
  [item EXCEPT !.lastLoginTime = t,
               !.lastLoginIP = sessionData.ip,
               !.lastLoginLocation = sessionData.location,
               !.lastLoginDevice = sessionData.device,
               !.loginHistory = recentHistory,
               !.loginOTP = Null,
               !.loginOTPExpiry = NoTime,
               !.loginOTPAttempts = 0,
               !.pendingSessionData = Null]

(* verifyLoginOTP: SET lastLogin..., loginHistory, loginOTP = null, loginOTPExpiry = null,
   loginOTPAttempts = 0, pendingSessionId = null, pendingSessionData = null *)
VerifyLoginOTPCommitUpdate(item, t, sessionData, recentHistory) ==
  [item EXCEPT !.lastLoginTime = t,
               !.lastLoginIP = sessionData.ip,
               !.lastLoginLocation = sessionData.location,
               !.lastLoginDevice = sessionData.device,
               !.loginHistory = recentHistory,
               !.loginOTP = Null,
               !.loginOTPExpiry = NoTime,
               !.loginOTPAttempts = 0,
               !.pendingSessionId = NoId,
               !.pendingSessionData = Null]

(* ---- the order of the handlers' checks ---- *)

(* variant: the signup attempts are cut off one check late *)
VerifyEmailBranch_OneMore(user, otp, t) ==
  IF user.isEmailVerified THEN "ALREADY_VERIFIED"
  ELSE IF user.otpAttempts > MAX_OTP_ATTEMPTS THEN "OTP_MAX_ATTEMPTS"
  ELSE IF isOTPExpired(user.otpExpiry, t) THEN "OTP_EXPIRED"
  ELSE IF user.otp # otp THEN "OTP_INVALID"
  ELSE "OK"

(* verifyEmail, lines 374-419 *)
VerifyEmailBranch(user, otp, t) ==
  IF user.isEmailVerified THEN "ALREADY_VERIFIED"
  ELSE IF user.otpAttempts >= MAX_OTP_ATTEMPTS THEN "OTP_MAX_ATTEMPTS"
  ELSE IF isOTPExpired(user.otpExpiry, t) THEN "OTP_EXPIRED"
  ELSE IF user.otp # otp THEN "OTP_INVALID"
  ELSE "OK"

(* variant: the code is compared before the expiry is looked at *)
VerifyLoginOTPBranch_CodeFirst(user, otp, t) ==
  IF user.loginOTPAttempts >= MAX_OTP_ATTEMPTS THEN "OTP_MAX_ATTEMPTS"
  ELSE IF user.loginOTP = otp THEN "OK"
  ELSE IF isOTPExpired(user.loginOTPExpiry, t) THEN "OTP_EXPIRED"
  ELSE "OTP_INVALID"

(* verifyLoginOTP, lines 665-701 *)
VerifyLoginOTPBranch(user, otp, t) ==
  IF user.loginOTPAttempts >= MAX_OTP_ATTEMPTS THEN "OTP_MAX_ATTEMPTS"
  ELSE IF isOTPExpired(user.loginOTPExpiry, t) THEN "OTP_EXPIRED"
  ELSE IF user.loginOTP # otp THEN "OTP_INVALID"
  ELSE "OK"

(* variant: the verification flag is looked at before the password *)
LoginBranch_VerifiedFirst(valid, user, cognitiveCheck) ==
  IF ~user.isEmailVerified THEN "EMAIL_UNVERIFIED"
  ELSE IF ~valid THEN "INVALID_CREDENTIALS"
  ELSE IF cognitiveCheck.suspicious THEN "STEP_UP_REQUIRED"
  ELSE "AUTHENTICATED"

(* variant: the verification flag is not looked at *)
LoginBranch_Unverified(valid, user, cognitiveCheck) ==
  IF ~valid THEN "INVALID_CREDENTIALS"
  ELSE IF cognitiveCheck.suspicious THEN "STEP_UP_REQUIRED"
  ELSE "AUTHENTICATED"

(* login after the attempt is recorded, lines 516-538 *)
LoginBranch(valid, user, cognitiveCheck) ==
  IF ~valid THEN "INVALID_CREDENTIALS"
  ELSE IF ~user.isEmailVerified THEN "EMAIL_UNVERIFIED"
  ELSE IF cognitiveCheck.suspicious THEN "STEP_UP_REQUIRED"
  ELSE "AUTHENTICATED"

----------------------------------------------------------------------------
(* Workers *)

NoReq == [op |-> "none"]
NoResp == [status |-> 0, outcome |-> "none", token |-> FALSE]

Response(status, outcome, token, body) ==
  [status |-> status, outcome |-> outcome, token |-> token, body |-> body]

(* the handlers' catch blocks: 500 "Internal Server Error" *)
InternalError == Response(500, "INTERNAL_ERROR", FALSE, NullRec)

Respond(w, r) ==
  /\ pc' = [pc EXCEPT ![w] = "done"]
  /\ resp' = [resp EXCEPT ![w] = r]

Goto(w, label) ==
  /\ pc' = [pc EXCEPT ![w] = label]
  /\ UNCHANGED resp

Begin(w, request) ==
  /\ pc[w] = "idle"
  /\ reqLeft > 0
  /\ reqLeft' = reqLeft - 1
  /\ req' = [req EXCEPT ![w] = request]

(* what a step-up session id stands for: the login request that created it *)
SessionFacts(request, user, t) ==
  [userId |-> user.userId,
   event |-> request.event,
   rateLimited |-> Cardinality({i \in 1..Len(user.loginAttempts) :
                                  user.loginAttempts[i] > t - 15}) >= 5,
   passwordMatched |-> user.passwordHash = bcryptHash(request.password),
   emailVerified |-> user.isEmailVerified]

----------------------------------------------------------------------------
(* Starting states.  A run starts on the empty table or on the record an earlier
   run has left, built here by the updates the handlers apply. *)

TheEmail == "a@x.io"
HomeEvent == [ip |-> "1.1.1.1", ua |-> "chrome-windows"]
AwayEvent == [ip |-> "2.2.2.2", ua |-> "chrome-windows"]

(* after signup(TheEmail, "password1") at time t: the signup OTP is pending *)
SignedUp(t, otp) ==
  SignupItem(1, TheEmail, bcryptHash("password1"), otp, generateOTPExpiry(t))

(* after a login at time t from `event` that was not suspicious *)
DirectLogin(item, t, event) ==
  LET cc == performCognitiveCheck(event, item, t) IN
  LoginCommitUpdate(RecordAttemptUpdate(item, t), t, cc,
                    PushAndTrim(item.loginHistory,
                                HistoryEntry(t, cc.currentIP, cc.currentLocation,
                                             cc.currentDevice)))

(* after a login at time t from `event` that was suspicious *)
StepUpLogin(item, t, event, otp, sessionId) ==
  StepUpUpdate(RecordAttemptUpdate(item, t), otp, generateOTPExpiry(t), sessionId,
               performCognitiveCheck(event, item, t), t)

(* the i-th of n earlier logins: at most PastPerWindow of them in one window *)
PastLoginTime(i, n) ==
  StartTime - RATE_LIMIT_WINDOW_MINUTES * (1 + ((n - i) \div PastPerWindow))

RECURSIVE WithPastLogins(_, _, _)
WithPastLogins(item, i, n) ==
  IF i > n THEN item
  ELSE WithPastLogins(DirectLogin(item, PastLoginTime(i, n), HomeEvent), i + 1, n)

RECURSIVE WithFailedLogins(_, _, _)
WithFailedLogins(item, k, t) ==
  IF k = 0 THEN item ELSE WithFailedLogins(RecordAttemptUpdate(item, t), k - 1, t)

RECURSIVE WithWrongSignupCodes(_, _)
WithWrongSignupCodes(item, k) ==
  IF k = 0 THEN item ELSE WithWrongSignupCodes(VerifyEmailIncrementUpdate(item), k - 1)

RECURSIVE WithWrongLoginCodes(_, _)
WithWrongLoginCodes(item, k) ==
  IF k = 0 THEN item ELSE WithWrongLoginCodes(VerifyLoginOTPIncrementUpdate(item), k - 1)

(* a verified user with n earlier logins from home *)
Member(n) == WithPastLogins(VerifyEmailCommitUpdate(SignedUp(0, "111111")), 1, n)

(* a new user who has entered k wrong signup codes *)
Newcomer(k) == WithWrongSignupCodes(SignedUp(StartTime, "111111"), k)

(* a member whose login from abroad waits for its OTP, k wrong codes entered *)
Challenged(k) ==
  WithWrongLoginCodes(StepUpLogin(Member(1), StartTime, AwayEvent, "111111", 2), k)

(* a member who signed up again while their login from abroad was between its
   scan and its writes: the put replaced the record, then the login recorded its
   attempt and stored its step-up OTP; j wrong signup codes and k wrong step-up
   codes have been entered since *)
Reregistered(j, k) ==
  WithWrongLoginCodes(
    WithWrongSignupCodes(
      StepUpLogin(SignedUp(StartTime, "111111"), StartTime, AwayEvent, "222222", 2), j),
    k)

InitWith(n, budget, items) ==
  /\ now = StartTime
  /\ store \in {IF item = NullRec THEN <<>> ELSE <<item>> : item \in items}
  /\ nextUuid = 3
  /\ pc = [w \in Workers |-> IF w <= n THEN "idle" ELSE "off"]
  /\ req = [w \in Workers |-> NoReq]
  /\ loc = [w \in Workers |-> NullRec]
  /\ resp = [w \in Workers |-> NoResp]
  /\ reqLeft = budget
  /\ logins = [u \in DOMAIN store |-> store[u].loginHistory]
  /\ sessions = [sid \in {store[u].pendingSessionId : u \in DOMAIN store} \ {NoId} |->
                   SessionFacts([event |-> AwayEvent, password |-> "password1"],
                                Member(1), StartTime)]
  /\ superseded = {}

(* one Lambda invocation at a time; the table is empty or holds a user who has
   logged in once *)
Init == InitWith(1, MaxRequestsSeq, {NullRec, Member(1)})

(* one invocation at a time; the user has used part of the login window *)
InitRate ==
  InitWith(1, MaxRequestsRate,
           {WithFailedLogins(Member(1), SeedAttempts, StartTime),
            WithFailedLogins(Newcomer(0), SeedAttempts, StartTime)})

(* one invocation at a time; the user's login history is nearly full *)
InitHist == InitWith(1, MaxRequestsHist, {Member(SeedHistory)})

(* one invocation at a time; an OTP has been tried with wrong codes *)
InitOtp ==
  InitWith(1, MaxRequestsOtp, {Newcomer(SeedOtpAttempts), Challenged(SeedOtpAttempts)})

(* two concurrent Lambda invocations *)
InitConc ==
  InitWith(2, MaxRequestsConc,
           {NullRec, Newcomer(SeedOtpAttempts), Challenged(SeedOtpAttempts)})

(* one invocation at a time; a signup OTP and a step-up OTP are both pending *)
InitBoth ==
  InitWith(1, MaxRequestsBoth, {Reregistered(SeedOtpAttempts, SeedOtpAttempts - 1)})

(* two concurrent invocations; the user is one attempt short of the login limit *)
InitBurst ==
  InitWith(2, MaxRequestsConc,
           {WithFailedLogins(Member(1), MAX_LOGIN_ATTEMPTS - 1, StartTime)})

(* one invocation at a time; the user has just used up the login window *)
InitLockout ==
  InitWith(1, MaxRequestsRate, {WithFailedLogins(Member(1), MAX_LOGIN_ATTEMPTS, StartTime)})

(* the clock; a finished handler returns before the clock moves on *)
Tick ==
  /\ now + TickMinutes <= MaxTime
  /\ \A w \in Workers : pc[w] # "done"
  /\ now' = now + TickMinutes
  /\ UNCHANGED <<store, nextUuid, pc, req, loc, resp, reqLeft, logins, sessions, superseded>>

(* the handler has returned: the invocation ends *)
Return(w) ==
  /\ pc[w] = "done"
  /\ pc' = [pc EXCEPT ![w] = "idle"]
  /\ req' = [req EXCEPT ![w] = NoReq]
  /\ loc' = [loc EXCEPT ![w] = NullRec]
  /\ resp' = [resp EXCEPT ![w] = NoResp]
  /\ UNCHANGED <<now, store, nextUuid, reqLeft, logins, sessions, superseded>>

----------------------------------------------------------------------------
(* signup *)

SignupScan(w, email, password) ==
  /\ Begin(w, [op |-> "signup", email |-> email, password |-> password])
  /\ UNCHANGED <<now, store, logins, sessions, superseded>>
  /\ IF \/ email = Null \/ password = Null
        \/ ~EmailWellFormed(email)
        \/ PasswordLength(password) < MIN_PASSWORD_LENGTH
     THEN /\ Respond(w, Response(400, "VALIDATION", FALSE, NullRec))
          /\ loc' = [loc EXCEPT ![w] = [scanned |-> FALSE]]
          /\ UNCHANGED nextUuid
     ELSE
       /\ Goto(w, "signup_put")
       /\ \E otp \in Codes :
            IF ScanByEmail(email) # {}
            THEN /\ \E u \in ScanByEmail(email) :
                      loc' = [loc EXCEPT ![w] =
                                [scanned |-> TRUE, userId |-> store[u].userId,
                                 isUpdatingExisting |-> TRUE,
                                 passwordHash |-> bcryptHash(password),
                                 otp |-> otp, otpExpiry |-> generateOTPExpiry(now)]]
                 /\ UNCHANGED nextUuid
            ELSE /\ loc' = [loc EXCEPT ![w] =
                                [scanned |-> TRUE, userId |-> nextUuid,
                                 isUpdatingExisting |-> FALSE,
                                 passwordHash |-> bcryptHash(password),
                                 otp |-> otp, otpExpiry |-> generateOTPExpiry(now)]]
                 /\ nextUuid' = nextUuid + 1

(* dynamo.put *)
SignupPutWrite(w) ==
  /\ store' = Put(SignupItem(loc[w].userId, req[w].email, loc[w].passwordHash,
                             loc[w].otp, loc[w].otpExpiry))
  /\ logins' = [u \in DOMAIN store' |-> IF u = loc[w].userId THEN <<>> ELSE logins[u]]

(* dynamo.put, then sendSignupOTP: the code is in the response when the mail failed *)
SignupPut(w) ==
  /\ pc[w] = "signup_put"
  /\ SignupPutWrite(w)
  /\ \E emailResult \in DeliveryOutcomes :
       /\ loc' = [loc EXCEPT ![w] = [emailResult |-> emailResult] @@ loc[w]]
       /\ Respond(w, Response(201, "SIGNED_UP", FALSE,
                 [userId |-> loc[w].userId, email |-> req[w].email,
                  isNewUser |-> ~loc[w].isUpdatingExisting,
                  delivered |-> emailResult = "sent",
                  otp |-> IF emailResult = "sent" THEN Null ELSE loc[w].otp]))
  /\ UNCHANGED <<now, nextUuid, req, reqLeft, sessions, superseded>>

----------------------------------------------------------------------------
(* resendOTP *)

ResendScan(w, email) ==
  /\ Begin(w, [op |-> "resendOTP", email |-> email])
  /\ UNCHANGED <<now, store, nextUuid, logins, sessions, superseded>>
  /\ IF email = Null
     THEN /\ Respond(w, Response(400, "VALIDATION", FALSE, NullRec))
          /\ loc' = [loc EXCEPT ![w] = [scanned |-> FALSE]]
     ELSE IF ScanByEmail(email) = {}
     THEN /\ Respond(w, Response(404, "NOT_FOUND", FALSE, NullRec))
          /\ loc' = [loc EXCEPT ![w] = [scanned |-> TRUE, user |-> NullRec]]
     ELSE \E u \in ScanByEmail(email) :
            LET user == store[u] IN
            IF user.isEmailVerified
            THEN /\ Respond(w, Response(400, "ALREADY_VERIFIED", FALSE, NullRec))
                 /\ loc' = [loc EXCEPT ![w] = [scanned |-> TRUE, user |-> user]]
            ELSE /\ Goto(w, "resend_update")
                 /\ \E otp \in Codes :
                      loc' = [loc EXCEPT ![w] =
                                [scanned |-> TRUE, user |-> user, otp |-> otp,
                                 otpExpiry |-> generateOTPExpiry(now)]]

(* dynamo.update *)
ResendUpdateWrite(w) ==
  LET u == loc[w].user.userId IN
  store' = Update(u, ResendOTPUpdate(store[u], loc[w].otp, loc[w].otpExpiry))

(* dynamo.update, then sendSignupOTP *)
ResendUpdate(w) ==
  /\ pc[w] = "resend_update"
  /\ ResendUpdateWrite(w)
  /\ \E emailResult \in DeliveryOutcomes :
       /\ loc' = [loc EXCEPT ![w] = [emailResult |-> emailResult] @@ loc[w]]
       /\ IF emailResult = "sent"
          THEN Respond(w, Response(200, "OTP_RESENT", FALSE,
                         [email |-> req[w].email, delivered |-> TRUE, otp |-> Null]))
          ELSE Respond(w, Response(500, "DELIVERY_FAILED", FALSE,
                         [email |-> req[w].email, delivered |-> FALSE, otp |-> Null]))
  /\ UNCHANGED <<now, nextUuid, req, reqLeft, logins, sessions, superseded>>

----------------------------------------------------------------------------
(* verifyEmail *)

VerifyEmailScan(w, email, otp) ==
  /\ Begin(w, [op |-> "verifyEmail", email |-> email, otp |-> otp])
  /\ UNCHANGED <<now, store, nextUuid, logins, sessions, superseded>>
  /\ IF email = Null \/ otp = Null
     THEN /\ Respond(w, Response(400, "VALIDATION", FALSE, NullRec))
          /\ loc' = [loc EXCEPT ![w] = [scanned |-> FALSE]]
     ELSE IF ScanByEmail(email) = {}
     THEN /\ Respond(w, Response(404, "NOT_FOUND", FALSE, NullRec))
          /\ loc' = [loc EXCEPT ![w] = [scanned |-> TRUE, user |-> NullRec]]
     ELSE \E u \in ScanByEmail(email) :
            LET user == store[u]
                branch == VerifyEmailBranch(user, otp, now)
            IN
            /\ loc' = [loc EXCEPT ![w] = [scanned |-> TRUE, user |-> user, now |-> now]]
            /\ CASE branch = "ALREADY_VERIFIED" ->
                      Respond(w, Response(400, "ALREADY_VERIFIED", FALSE, NullRec))
                 [] branch = "OTP_MAX_ATTEMPTS" ->
                      Respond(w, Response(429, "OTP_MAX_ATTEMPTS", FALSE, NullRec))
                 [] branch = "OTP_EXPIRED" ->
                      Respond(w, Response(400, "OTP_EXPIRED", FALSE, NullRec))
                 [] branch = "OTP_INVALID" -> Goto(w, "verifyEmail_increment")
                 [] OTHER -> Goto(w, "verifyEmail_commit")

VerifyEmailIncrement(w) ==
  /\ pc[w] = "verifyEmail_increment"
  /\ LET u == loc[w].user.userId IN
     store' = Update(u, VerifyEmailIncrementUpdate(store[u]))
  /\ Respond(w, Response(400, "OTP_INVALID", FALSE,
               [attemptsRemaining |-> MAX_OTP_ATTEMPTS - (loc[w].user.otpAttempts + 1)]))
  /\ UNCHANGED <<now, nextUuid, req, loc, reqLeft, logins, sessions, superseded>>

(* dynamo.update, then jwt.sign *)
VerifyEmailCommit(w) ==
  /\ pc[w] = "verifyEmail_commit"
  /\ LET u == loc[w].user.userId IN
     store' = Update(u, VerifyEmailCommitUpdate(store[u]))
  /\ Respond(w, Response(200, "EMAIL_VERIFIED", TRUE, NullRec))
  /\ UNCHANGED <<now, nextUuid, req, loc, reqLeft, logins, sessions, superseded>>

----------------------------------------------------------------------------
(* login *)

LoginScan(w, email, password, event) ==
  /\ Begin(w, [op |-> "login", email |-> email, password |-> password, event |-> event])
  /\ UNCHANGED <<now, store, nextUuid, logins, sessions, superseded>>
  /\ IF email = Null \/ password = Null
     THEN /\ Respond(w, Response(400, "VALIDATION", FALSE, NullRec))
          /\ loc' = [loc EXCEPT ![w] = [scanned |-> FALSE]]
     ELSE IF ScanByEmail(email) = {}
     THEN /\ Respond(w, Response(401, "INVALID_CREDENTIALS", FALSE, NullRec))
          /\ loc' = [loc EXCEPT ![w] = [scanned |-> TRUE, user |-> NullRec,
                                        compared |-> FALSE]]
     ELSE \E u \in ScanByEmail(email) :
            LET user == store[u]
                rateLimitCheck == checkRateLimit(user.loginAttempts,
                                    RATE_LIMIT_WINDOW_MINUTES, MAX_LOGIN_ATTEMPTS, now)
            IN
            /\ loc' = [loc EXCEPT ![w] = [scanned |-> TRUE, user |-> user, now |-> now,
                                          compared |-> FALSE]]
            /\ IF rateLimitCheck.limited
               THEN Respond(w, Response(429, "RATE_LIMITED", FALSE,
                              [retryAfter |-> RATE_LIMIT_WINDOW_MINUTES * 60]))
               ELSE Goto(w, "login_record")

(* the attempt is recorded; then bcrypt.compare, the verification flag and the
   cognitive check decide what follows *)
LoginRecord(w) ==
  /\ pc[w] = "login_record"
  /\ LET u == loc[w].user.userId IN
     store' = Update(u, RecordAttemptUpdate(store[u], loc[w].now))
  /\ UNCHANGED <<now, req, reqLeft, logins, sessions, superseded>>
  /\ LET user == loc[w].user
         valid == bcryptCompare(req[w].password, user.passwordHash)
         cognitiveCheck == performCognitiveCheck(req[w].event, user, now)
         branch == LoginBranch(valid, user, cognitiveCheck)
         seen == [scanned |-> TRUE, user |-> user, now |-> loc[w].now,
                  compared |-> TRUE, assessed |-> FALSE]
     IN
     CASE branch = "INVALID_CREDENTIALS" ->
            /\ Respond(w, Response(401, "INVALID_CREDENTIALS", FALSE, NullRec))
            /\ loc' = [loc EXCEPT ![w] = seen]
            /\ UNCHANGED nextUuid
       [] branch = "EMAIL_UNVERIFIED" ->
            /\ Respond(w, Response(403, "EMAIL_UNVERIFIED", FALSE,
                         [requiresEmailVerification |-> TRUE]))
            /\ loc' = [loc EXCEPT ![w] = seen]
            /\ UNCHANGED nextUuid
       [] branch = "STEP_UP_REQUIRED" ->
            /\ Goto(w, "login_stepup")
            /\ \E otp \in Codes :
                 loc' = [loc EXCEPT ![w] =
                           [scanned |-> TRUE, user |-> user, now |-> loc[w].now,
                            compared |-> TRUE, assessed |-> TRUE,
                            cognitiveCheck |-> cognitiveCheck,
                            otp |-> otp, otpExpiry |-> generateOTPExpiry(now),
                            sessionId |-> nextUuid]]
            /\ nextUuid' = nextUuid + 1
       [] OTHER ->
            /\ Goto(w, "login_commit")
            /\ loc' = [loc EXCEPT ![w] =
                         [scanned |-> TRUE, user |-> user, now |-> loc[w].now,
                          compared |-> TRUE, assessed |-> TRUE,
                          cognitiveCheck |-> cognitiveCheck,
                          recentHistory |->
                            PushAndTrim(user.loginHistory,
                              HistoryEntry(loc[w].now, cognitiveCheck.currentIP,
                                           cognitiveCheck.currentLocation,
                                           cognitiveCheck.currentDevice))]]
            /\ UNCHANGED nextUuid

(* dynamo.update *)
LoginStepUpWrite(w) ==
  /\ LET u == loc[w].user.userId IN
     /\ store' = Update(u, StepUpUpdate(store[u], loc[w].otp, loc[w].otpExpiry,
                                        loc[w].sessionId, loc[w].cognitiveCheck,
                                        loc[w].now))
     /\ superseded' = superseded \cup ({store[u].pendingSessionId} \ {NoId})
  /\ sessions' = [sid \in DOMAIN sessions \cup {loc[w].sessionId} |->
                    IF sid = loc[w].sessionId
                    THEN SessionFacts(req[w], loc[w].user, loc[w].now)
                    ELSE sessions[sid]]

(* suspicious: the step-up OTP and the pending session are stored, the OTP mailed
   (sendLoginOTP's result is not read) *)
LoginStepUp(w) ==
  /\ pc[w] = "login_stepup"
  /\ LoginStepUpWrite(w)
  /\ \E emailResult \in DeliveryOutcomes :
       /\ loc' = [loc EXCEPT ![w] = [emailResult |-> emailResult] @@ loc[w]]
       /\ Respond(w, Response(200, "STEP_UP_REQUIRED", FALSE,
                 [requiresOTP |-> TRUE, sessionId |-> loc[w].sessionId,
                  reason |-> loc[w].cognitiveCheck.reasons]))
  /\ UNCHANGED <<now, nextUuid, req, reqLeft, logins>>

(* normal login: last login and history are stored, the token signed *)
LoginCommitWrite(w) ==
  LET u == loc[w].user.userId IN
  /\ store' = Update(u, LoginCommitUpdate(store[u], loc[w].now, loc[w].cognitiveCheck,
                                          loc[w].recentHistory))
  /\ logins' = [logins EXCEPT ![u] =
                  Append(@, HistoryEntry(loc[w].now,
                                         extractIPAddress(req[w].event),
                                         getIPLocation(extractIPAddress(req[w].event)),
                                         getDeviceFingerprint(req[w].event)))]

LoginCommit(w) ==
  /\ pc[w] = "login_commit"
  /\ LoginCommitWrite(w)
  /\ Respond(w, Response(200, "AUTHENTICATED", TRUE,
               [userId |-> loc[w].user.userId, email |-> loc[w].user.email]))
  /\ UNCHANGED <<now, nextUuid, req, loc, reqLeft, sessions, superseded>>

----------------------------------------------------------------------------
(* verifyLoginOTP *)

VerifyLoginOTPScan(w, sessionId, otp, event) ==
  /\ Begin(w, [op |-> "verifyLoginOTP", sessionId |-> sessionId, otp |-> otp,
               event |-> event])
  /\ UNCHANGED <<now, store, nextUuid, logins, sessions, superseded>>
  /\ IF sessionId = NoId \/ otp = Null
     THEN /\ Respond(w, Response(400, "VALIDATION", FALSE, NullRec))
          /\ loc' = [loc EXCEPT ![w] = [scanned |-> FALSE]]
     ELSE IF ScanBySession(sessionId) = {}
     THEN /\ Respond(w, Response(404, "NOT_FOUND", FALSE, NullRec))
          /\ loc' = [loc EXCEPT ![w] = [scanned |-> TRUE, user |-> NullRec]]
     ELSE \E u \in ScanBySession(sessionId) :
            LET user == store[u]
                branch == VerifyLoginOTPBranch(user, otp, now)
                sessionData == JSONparse(user.pendingSessionData)
                seen == [scanned |-> TRUE, user |-> user, now |-> now]
            IN
            CASE branch = "OTP_MAX_ATTEMPTS" ->
                   /\ Respond(w, Response(429, "OTP_MAX_ATTEMPTS", FALSE, NullRec))
                   /\ loc' = [loc EXCEPT ![w] = seen]
              [] branch = "OTP_EXPIRED" ->
                   /\ Respond(w, Response(400, "OTP_EXPIRED", FALSE, NullRec))
                   /\ loc' = [loc EXCEPT ![w] = seen]
              [] branch = "OTP_INVALID" ->
                   /\ Goto(w, "verifyLoginOTP_increment")
                   /\ loc' = [loc EXCEPT ![w] = seen]
              [] OTHER ->
                   /\ Goto(w, "verifyLoginOTP_commit")
                   /\ loc' = [loc EXCEPT ![w] =
                                [scanned |-> TRUE, user |-> user, now |-> now,
                                 sessionData |-> sessionData,
                                 recentHistory |->
                                   PushAndTrim(user.loginHistory,
                                     HistoryEntry(now, sessionData.ip,
                                                  sessionData.location,
                                                  sessionData.device))]]

(* "SET loginOTPAttempts = loginOTPAttempts + :inc" is rejected by the table when
   the attribute is absent; the handler's catch answers 500 *)
VerifyLoginOTPIncrement(w) ==
  /\ pc[w] = "verifyLoginOTP_increment"
  /\ LET u == loc[w].user.userId IN
     IF store[u].loginOTPAttempts = NoNumber
     THEN /\ UNCHANGED store
          /\ Respond(w, Response(500, "INTERNAL_ERROR", FALSE, NullRec))
     ELSE /\ store' = Update(u, VerifyLoginOTPIncrementUpdate(store[u]))
          /\ Respond(w, Response(400, "OTP_INVALID", FALSE,
                       [attemptsRemaining |->
                          MAX_OTP_ATTEMPTS - (loc[w].user.loginOTPAttempts + 1)]))
  /\ UNCHANGED <<now, nextUuid, req, loc, reqLeft, logins, sessions, superseded>>

(* dynamo.update, then jwt.sign *)
VerifyLoginOTPCommitWrite(w) ==
  LET u == loc[w].user.userId IN
  /\ store' = Update(u, VerifyLoginOTPCommitUpdate(store[u], loc[w].now,
                                                   loc[w].sessionData,
                                                   loc[w].recentHistory))
  /\ logins' = [logins EXCEPT ![u] =
                  Append(@, [timestamp |-> loc[w].now,
                             ip |-> loc[w].user.pendingSessionData.json.ip,
                             location |-> loc[w].user.pendingSessionData.json.location,
                             device |-> loc[w].user.pendingSessionData.json.device])]

VerifyLoginOTPCommit(w) ==
  /\ pc[w] = "verifyLoginOTP_commit"
  /\ VerifyLoginOTPCommitWrite(w)
  /\ Respond(w, Response(200, "AUTHENTICATED", TRUE,
               [userId |-> loc[w].user.userId, email |-> loc[w].user.email]))
  /\ UNCHANGED <<now, nextUuid, req, loc, reqLeft, sessions, superseded>>

----------------------------------------------------------------------------
(* Requests a client can send *)

SignupInputs ==
  {<<e, p>> : e \in Emails, p \in Passwords}
  \cup {<<Null, "password1">>, <<TheEmail, Null>>,
        <<BadEmail, "password1">>, <<TheEmail, ShortPassword>>}

ResendInputs == Emails \cup {Null}

VerifyEmailInputs ==
  {<<e, c>> : e \in Emails, c \in Codes} \cup {<<Null, "111111">>, <<TheEmail, Null>>}

LoginInputs ==
  {<<e, p, ev>> : e \in Emails, p \in Passwords, ev \in Events}
  \cup {<<Null, "password1", HomeEvent>>, <<TheEmail, Null, HomeEvent>>,
        <<UnknownEmail, "password1", HomeEvent>>}

(* session ids a client may hold: every uuid handed out so far *)
VerifyLoginOTPInputs ==
  {<<sid, c, ev>> : sid \in 1..(nextUuid - 1), c \in Codes, ev \in Events}
  \cup {<<NoId, "111111", HomeEvent>>, <<1, Null, HomeEvent>>}

Next ==
  \/ Tick
  \/ \E w \in Workers :
       \/ Return(w)
       \/ \E i \in SignupInputs : SignupScan(w, i[1], i[2])
       \/ SignupPut(w)
       \/ \E e \in ResendInputs : ResendScan(w, e)
       \/ ResendUpdate(w)
       \/ \E i \in VerifyEmailInputs : VerifyEmailScan(w, i[1], i[2])
       \/ VerifyEmailIncrement(w)
       \/ VerifyEmailCommit(w)
       \/ \E i \in LoginInputs : LoginScan(w, i[1], i[2], i[3])
       \/ LoginRecord(w)
       \/ LoginStepUp(w)
       \/ LoginCommit(w)
       \/ \E i \in VerifyLoginOTPInputs : VerifyLoginOTPScan(w, i[1], i[2], i[3])
       \/ VerifyLoginOTPIncrement(w)
       \/ VerifyLoginOTPCommit(w)

Spec == Init /\ [][Next]_vars

SpecRate == InitRate /\ [][Next]_vars

SpecHist == InitHist /\ [][Next]_vars

SpecOtp == InitOtp /\ [][Next]_vars

SpecConc == InitConc /\ [][Next]_vars

SpecBoth == InitBoth /\ [][Next]_vars

SpecBurst == InitBurst /\ [][Next]_vars

SpecLockout == InitLockout /\ [][Next]_vars

----------------------------------------------------------------------------
(* Requests that fail part-way: a table write is rejected, or the write goes
   through and jwt.sign or the mailer throws; either way the handler's catch
   answers 500 *)

WriteLabels ==
  {"signup_put", "resend_update", "verifyEmail_increment", "verifyEmail_commit",
   "login_record", "login_stepup", "login_commit", "verifyLoginOTP_increment",
   "verifyLoginOTP_commit"}

WriteFails(w) ==
  /\ pc[w] \in WriteLabels
  /\ Respond(w, InternalError)
  /\ UNCHANGED <<now, store, nextUuid, req, loc, reqLeft, logins, sessions, superseded>>

SignFails(w) ==
  /\ pc[w] \in {"login_commit", "verifyLoginOTP_commit"}
  /\ IF pc[w] = "login_commit" THEN LoginCommitWrite(w) ELSE VerifyLoginOTPCommitWrite(w)
  /\ Respond(w, InternalError)
  /\ UNCHANGED <<now, nextUuid, req, loc, reqLeft, sessions, superseded>>

(* sendSignupOTP and sendLoginOTP call createTransporter() outside their try
   blocks; its SMTP branch calls nodemailer.createTransporter, which nodemailer
   does not export, so with SMTP_HOST and SMTP_USER set the call throws after the
   table write *)
MailThrows(w) ==
  /\ pc[w] \in {"signup_put", "resend_update", "login_stepup"}
  /\ CASE pc[w] = "signup_put" ->
            SignupPutWrite(w) /\ UNCHANGED <<sessions, superseded>>
       [] pc[w] = "resend_update" ->
            ResendUpdateWrite(w) /\ UNCHANGED <<logins, sessions, superseded>>
       [] OTHER ->
            LoginStepUpWrite(w) /\ UNCHANGED logins
  /\ loc' = [loc EXCEPT ![w] = [emailResult |-> "threw"] @@ loc[w]]
  /\ Respond(w, InternalError)
  /\ UNCHANGED <<now, nextUuid, req, reqLeft>>

NextFaulty ==
  \/ Next
  \/ \E w \in Workers : WriteFails(w) \/ SignFails(w) \/ MailThrows(w)

(* one invocation at a time, any of which may fail part-way *)
InitFaulty == InitWith(1, MaxRequestsSeq, {Member(1)})

SpecFaulty == InitFaulty /\ [][NextFaulty]_vars

----------------------------------------------------------------------------
(* performCognitiveCheck on its own: the profiles the handlers can have stored,
   assessed against every request at two times of day *)

UnknownIPEvent == [ip |-> Null, ua |-> "chrome-windows"]

AssessEvents ==
  Events \cup {UnknownIPEvent, [ip |-> "2.2.2.2", ua |-> "safari-mac"],
               [ip |-> "1.1.1.1", ua |-> "firefox-windows"],
               [ip |-> "1.1.1.1", ua |-> "chrome-mac"]}

AssessTimes == {StartTime, StartTime + HalfDay}

(* a member whose login from abroad was confirmed by OTP *)
Travelled ==
  LET pending == StepUpLogin(Member(SeedHistory), StartTime, AwayEvent, "111111", 2)
      data == JSONparse(pending.pendingSessionData)
  IN VerifyLoginOTPCommitUpdate(pending, StartTime, data,
       PushAndTrim(pending.loginHistory,
                   HistoryEntry(StartTime, data.ip, data.location, data.device)))

(* a member whose only login came from an address the database does not know *)
Untraced == DirectLogin(Member(0), StartTime, UnknownIPEvent)

Profiles == {Newcomer(0), Member(1), Member(SeedHistory), Travelled, Untraced}

InitAssess ==
  /\ now \in AssessTimes
  /\ store \in {<<profile>> : profile \in Profiles}
  /\ nextUuid = 3
  /\ pc = [w \in Workers |-> "assess"]
  /\ req = [w \in Workers |-> NoReq]
  /\ loc = [w \in Workers |-> NullRec]
  /\ resp = [w \in Workers |-> NoResp]
  /\ reqLeft = 0
  /\ logins = [u \in DOMAIN store |-> store[u].loginHistory]
  /\ sessions = <<>>
  /\ superseded = {}

(* const cognitiveCheck = performCognitiveCheck(event, user) *)
Assess(w, event) ==
  /\ pc[w] = "assess"
  /\ pc' = [pc EXCEPT ![w] = "assessed"]
  /\ req' = [req EXCEPT ![w] = [op |-> "assess", event |-> event]]
  /\ loc' = [loc EXCEPT ![w] =
              [scanned |-> TRUE, user |-> store[1], now |-> now,
               cognitiveCheck |-> performCognitiveCheck(event, store[1], now)]]
  /\ UNCHANGED <<now, store, nextUuid, resp, reqLeft, logins, sessions, superseded>>

Forget(w) ==
  /\ pc[w] = "assessed"
  /\ pc' = [pc EXCEPT ![w] = "assess"]
  /\ req' = [req EXCEPT ![w] = NoReq]
  /\ loc' = [loc EXCEPT ![w] = NullRec]
  /\ UNCHANGED <<now, store, nextUuid, resp, reqLeft, logins, sessions, superseded>>

(* the clock moves to the later time of day *)
Later ==
  /\ now = StartTime
  /\ now' = StartTime + HalfDay
  /\ UNCHANGED <<store, nextUuid, pc, req, loc, resp, reqLeft, logins, sessions,
                 superseded>>

NextAssess ==
  \/ Later
  \/ \E w \in Workers :
       \/ \E event \in AssessEvents : Assess(w, event)
       \/ Forget(w)

SpecAssess == InitAssess /\ [][NextAssess]_vars

----------------------------------------------------------------------------
(* isTimeSuspicious on its own: members who have logged in on earlier days at
   given hours, assessed at given hours of a later day *)

HistoryHours == {1, 9, 10}

ClockHours == {1, 15, 16, 21}

(* the time, in minutes, of hour `hour` of day `day` *)
TimeOf(day, hour) == (day * 24 + hour) * 60

(* after a login at time t from `event` that was suspicious and confirmed by OTP *)
ConfirmedLogin(item, t, event) ==
  LET pending == StepUpLogin(item, t, event, "111111", 2)
      data == JSONparse(pending.pendingSessionData)
  IN VerifyLoginOTPCommitUpdate(pending, t, data,
       PushAndTrim(pending.loginHistory,
                   HistoryEntry(t, data.ip, data.location, data.device)))

(* after a successful login at time t, confirmed by OTP if it was suspicious *)
LoginAt(item, t, event) ==
  IF performCognitiveCheck(event, item, t).suspicious
  THEN ConfirmedLogin(item, t, event)
  ELSE DirectLogin(item, t, event)

(* the i-th and later of the logins at `hours`, one a day *)
RECURSIVE WithLoginsAt(_, _, _)
WithLoginsAt(item, hours, i) ==
  IF i > Len(hours) THEN item
  ELSE WithLoginsAt(LoginAt(item, TimeOf(i - 1, hours[i]), HomeEvent), hours, i + 1)

ClockProfiles ==
  {WithLoginsAt(Member(0), hours, 1) :
     hours \in UNION {[1..n -> HistoryHours] : n \in 0..MaxClockHistory}}

InitClock ==
  /\ now \in {TimeOf(MaxClockHistory, hour) : hour \in ClockHours}
  /\ store \in {<<profile>> : profile \in ClockProfiles}
  /\ nextUuid = 3
  /\ pc = [w \in Workers |-> "assess"]
  /\ req = [w \in Workers |-> NoReq]
  /\ loc = [w \in Workers |-> NullRec]
  /\ resp = [w \in Workers |-> NoResp]
  /\ reqLeft = 0
  /\ logins = [u \in DOMAIN store |-> store[u].loginHistory]
  /\ sessions = <<>>
  /\ superseded = {}

NextClock ==
  \E w \in Workers :
    \/ \E event \in Events : Assess(w, event)
    \/ Forget(w)

SpecClock == InitClock /\ [][NextClock]_vars

----------------------------------------------------------------------------
(* checkRateLimit on its own: records with up to MaxAttemptsLen recorded attempts,
   checked with several windows and maxima *)

(* one window (15 minutes) before the start, one minute after that, and the start *)
AttemptTimes ==
  {StartTime - RATE_LIMIT_WINDOW_MINUTES, StartTime - RATE_LIMIT_WINDOW_MINUTES + 1,
   StartTime}

LimitWindows == {10, RATE_LIMIT_WINDOW_MINUTES}

LimitMaxima == {0, 1, 3, MAX_LOGIN_ATTEMPTS}

(* loginAttempts is appended to with the time of each attempt: it is in order *)
InOrder(times) == \A i \in 1..(Len(times) - 1) : times[i] <= times[i + 1]

RECURSIVE WithAttemptsAt(_, _, _)
WithAttemptsAt(item, times, i) ==
  IF i > Len(times) THEN item
  ELSE WithAttemptsAt(RecordAttemptUpdate(item, times[i]), times, i + 1)

LimitProfiles ==
  {WithAttemptsAt(Newcomer(0), times, 1) :
     times \in {t \in UNION {[1..n -> AttemptTimes] : n \in 0..MaxAttemptsLen} :
                 InOrder(t)}}

InitLimit ==
  /\ now = StartTime
  /\ store \in {<<profile>> : profile \in LimitProfiles}
  /\ nextUuid = 3
  /\ pc = [w \in Workers |-> "check"]
  /\ req = [w \in Workers |-> NoReq]
  /\ loc = [w \in Workers |-> NullRec]
  /\ resp = [w \in Workers |-> NoResp]
  /\ reqLeft = 0
  /\ logins = [u \in DOMAIN store |-> store[u].loginHistory]
  /\ sessions = <<>>
  /\ superseded = {}

(* const rateLimitCheck = checkRateLimit(loginAttempts, windowMinutes, maxAttempts) *)
Check(w, windowMinutes, maxAttempts) ==
  /\ pc[w] = "check"
  /\ pc' = [pc EXCEPT ![w] = "checked"]
  /\ req' = [req EXCEPT ![w] = [op |-> "check", windowMinutes |-> windowMinutes,
                                 maxAttempts |-> maxAttempts]]
  /\ loc' = [loc EXCEPT ![w] =
              [scanned |-> TRUE, user |-> store[1], now |-> now,
               rateLimitCheck |-> checkRateLimit(store[1].loginAttempts, windowMinutes,
                                                 maxAttempts, now)]]
  /\ UNCHANGED <<now, store, nextUuid, resp, reqLeft, logins, sessions, superseded>>

Release(w) ==
  /\ pc[w] = "checked"
  /\ pc' = [pc EXCEPT ![w] = "check"]
  /\ req' = [req EXCEPT ![w] = NoReq]
  /\ loc' = [loc EXCEPT ![w] = NullRec]
  /\ UNCHANGED <<now, store, nextUuid, resp, reqLeft, logins, sessions, superseded>>

NextLimit ==
  \E w \in Workers :
    \/ \E windowMinutes \in LimitWindows, maxAttempts \in LimitMaxima :
         Check(w, windowMinutes, maxAttempts)
    \/ Release(w)

SpecLimit == InitLimit /\ [][NextLimit]_vars

----------------------------------------------------------------------------
(* Properties.  A worker that is not idle shows its request (req), what it read
   from the table (loc.user, read at time loc.now) and, once done, its response. *)

Busy(w) == pc[w] \notin {"idle", "off"}

Done(w) == pc[w] = "done"

FoundUser(w) == loc[w].scanned /\ loc[w].user # NullRec

(* timestamps of `attempts` later than t - 15 minutes *)
InWindow(attempts, t) ==
  Cardinality({i \in 1..Len(attempts) : attempts[i] > t - 15})

PasswordRight(w) == loc[w].user.passwordHash = bcryptHash(req[w].password)

(* C1: a login that reads at least 5 attempts inside the trailing 15 minutes is
   answered RATE_LIMITED (status 429) at once, whether its password is right or
   wrong: no bcrypt.compare, no token, nothing written. *)
C1_RateLimited ==
  \A w \in Workers :
    ( /\ Busy(w) /\ req[w].op = "login" /\ FoundUser(w)
      /\ InWindow(loc[w].user.loginAttempts, loc[w].now) >= 5 )
    => /\ Done(w)
       /\ resp[w].outcome = "RATE_LIMITED"
       /\ resp[w].status = 429
       /\ ~resp[w].token
       /\ ~loc[w].compared
       /\ store[loc[w].user.userId] = loc[w].user

(* the sixth attempt of a window, with the right password, is turned away *)
C1_Witness ==
  \E w \in Workers :
    /\ Done(w) /\ req[w].op = "login" /\ FoundUser(w)
    /\ InWindow(loc[w].user.loginAttempts, loc[w].now) >= 5
    /\ PasswordRight(w)
    /\ resp[w].outcome = "RATE_LIMITED"

NoTokenOutcomes ==
  {"RATE_LIMITED", "INVALID_CREDENTIALS", "EMAIL_UNVERIFIED", "STEP_UP_REQUIRED",
   "OTP_INVALID", "OTP_EXPIRED", "OTP_MAX_ATTEMPTS", "NOT_FOUND"}

(* C2: login signs a token only for a user it found, not rate-limited, whose password
   matched, whose email is verified and whose cognitive check was not suspicious;
   verifyLoginOTP signs one only for the pending session of a login that passed the
   same checks and only when the submitted code is the stored one; the other
   outcomes carry no token. *)
C2_TokenOnlyIf ==
  \A w \in Workers :
    (Done(w) /\ req[w].op \in {"login", "verifyLoginOTP"}) =>
      /\ resp[w].outcome \in NoTokenOutcomes => ~resp[w].token
      /\ (resp[w].token /\ req[w].op = "login") =>
           /\ FoundUser(w)
           /\ InWindow(loc[w].user.loginAttempts, loc[w].now) < 5
           /\ PasswordRight(w)
           /\ loc[w].user.isEmailVerified
           /\ ~loc[w].cognitiveCheck.suspicious
           /\ resp[w].outcome = "AUTHENTICATED"
      /\ (resp[w].token /\ req[w].op = "verifyLoginOTP") =>
           /\ FoundUser(w)
           /\ loc[w].user.pendingSessionId = req[w].sessionId
           /\ loc[w].user.loginOTP = req[w].otp
           /\ req[w].sessionId \in DOMAIN sessions
           /\ sessions[req[w].sessionId].userId = loc[w].user.userId
           /\ ~sessions[req[w].sessionId].rateLimited
           /\ sessions[req[w].sessionId].passwordMatched
           /\ sessions[req[w].sessionId].emailVerified
           /\ resp[w].outcome = "AUTHENTICATED"

(* a token signed by verifyLoginOTP for a session that a login of this run created *)
C2_Witness ==
  \E w \in Workers :
    /\ Done(w) /\ req[w].op = "verifyLoginOTP" /\ resp[w].token
    /\ req[w].sessionId >= 3

(* the signals of a request, as the handlers derive them *)
SignalsOf(event) ==
  [ip |-> extractIPAddress(event),
   location |-> getIPLocation(extractIPAddress(event)),
   device |-> getDeviceFingerprint(event)]

LastLoginOf(item) ==
  [time |-> item.lastLoginTime, ip |-> item.lastLoginIP,
   location |-> item.lastLoginLocation, device |-> item.lastLoginDevice]

(* a login that got past the rate limit, the password and the verification flag *)
Assessed(w) ==
  /\ Done(w) /\ req[w].op = "login" /\ FoundUser(w)
  /\ loc[w].compared /\ PasswordRight(w) /\ loc[w].user.isEmailVerified

(* C3: a login assessed suspicious answers STEP_UP_REQUIRED with the new session id
   and the reasons and no token; the record then holds a step-up OTP with counter 0
   and an expiry 5 minutes after its generation, that session id (a uuid never
   handed out before), and the snapshot of the request's ip, location, device and
   the login's timestamp; lastLogin and loginHistory are as they were read. *)
C3_StepUpPersisted ==
  \A w \in Workers :
    (Assessed(w) /\ loc[w].cognitiveCheck.suspicious) =>
      LET item == store[loc[w].user.userId]
          sid == resp[w].body.sessionId
      IN
      /\ resp[w].outcome = "STEP_UP_REQUIRED"
      /\ ~resp[w].token
      /\ resp[w].body.reason = loc[w].cognitiveCheck.reasons
      /\ resp[w].body.reason # <<>>
      /\ item.loginOTP \in Codes
      /\ item.loginOTPAttempts = 0
      /\ item.loginOTPExpiry - 5 >= loc[w].now
      /\ item.loginOTPExpiry - 5 <= now
      /\ item.pendingSessionId = sid
      /\ sid = nextUuid - 1
      /\ sid # loc[w].user.pendingSessionId
      /\ sid \notin superseded
      /\ JSONparse(item.pendingSessionData).ip = SignalsOf(req[w].event).ip
      /\ JSONparse(item.pendingSessionData).location = SignalsOf(req[w].event).location
      /\ JSONparse(item.pendingSessionData).device = SignalsOf(req[w].event).device
      /\ JSONparse(item.pendingSessionData).timestamp = loc[w].now
      /\ LastLoginOf(item) = LastLoginOf(loc[w].user)
      /\ item.loginHistory = loc[w].user.loginHistory

(* a suspicious login has answered, on a record that has a last login *)
C3_Witness ==
  \E w \in Workers :
    /\ Assessed(w) /\ loc[w].cognitiveCheck.suspicious
    /\ resp[w].outcome = "STEP_UP_REQUIRED"
    /\ loc[w].user.lastLoginIP # Null
    /\ now > loc[w].now

(* a step-up confirmation that ended with a token *)
Confirmed(w) ==
  /\ Done(w) /\ req[w].op = "verifyLoginOTP"
  /\ resp[w].outcome = "AUTHENTICATED"

Last(h) == h[Len(h)]

(* C4: a successful verifyLoginOTP writes into lastLogin and appends to loginHistory
   the ip, location and device of the login that opened the session, before the
   step-up OTP's 5-minute expiry, whatever the confirming request's own signals are; and a login
   from FR by a user whose last login was from US is answered STEP_UP_REQUIRED with
   the reason "Login from new location". *)
C4_SnapshotCommitted ==
  \A w \in Workers :
    /\ Confirmed(w) =>
         LET item == store[loc[w].user.userId]
             opened == SignalsOf(sessions[req[w].sessionId].event)
             snapshot == JSONparse(loc[w].user.pendingSessionData)
         IN
         /\ snapshot.ip = opened.ip
         /\ snapshot.location = opened.location
         /\ snapshot.device = opened.device
         /\ loc[w].now <= loc[w].user.loginOTPExpiry
         /\ item.lastLoginIP = opened.ip
         /\ item.lastLoginLocation = opened.location
         /\ item.lastLoginDevice = opened.device
         /\ item.lastLoginTime = loc[w].now
         /\ item.loginHistory # <<>>
         /\ Last(item.loginHistory).ip = opened.ip
         /\ Last(item.loginHistory).location = opened.location
         /\ Last(item.loginHistory).device = opened.device
         /\ Last(item.loginHistory).timestamp = loc[w].now
    /\ (/\ Assessed(w)
        /\ loc[w].user.lastLoginIP # Null
        /\ loc[w].user.lastLoginLocation.country = "US"
        /\ SignalsOf(req[w].event).location.country = "FR") =>
         /\ resp[w].outcome = "STEP_UP_REQUIRED"
         /\ \E i \in 1..Len(resp[w].body.reason) :
              resp[w].body.reason[i] = "Login from new location"

(* a login from FR after one from US was confirmed by a request sent from US *)
C4_Witness ==
  \E w \in Workers :
    /\ Confirmed(w)
    /\ loc[w].user.lastLoginLocation.country = "US"
    /\ SignalsOf(sessions[req[w].sessionId].event).location.country = "FR"
    /\ SignalsOf(req[w].event).location.country = "US"
    /\ store[loc[w].user.userId].lastLoginLocation.country = "FR"

(* a verification that found a record with an OTP to check *)
Verified(w) ==
  /\ Done(w)
  /\ req[w].op \in {"verifyEmail", "verifyLoginOTP"}
  /\ FoundUser(w)
  /\ req[w].op = "verifyEmail" => ~loc[w].user.isEmailVerified

(* the OTP the verification read: its code, expiry and attempt counter *)
OtpRead(w) ==
  IF req[w].op = "verifyEmail"
  THEN [code |-> loc[w].user.otp, expiry |-> loc[w].user.otpExpiry,
        attempts |-> loc[w].user.otpAttempts]
  ELSE [code |-> loc[w].user.loginOTP, expiry |-> loc[w].user.loginOTPExpiry,
        attempts |-> loc[w].user.loginOTPAttempts]

AfterExpiry(w) == OtpRead(w).expiry # NoTime /\ loc[w].now > OtpRead(w).expiry

(* C5, as stated: a verification after the stored expiry is answered OTP_EXPIRED
   whatever the code and whatever the attempt counter. *)
C5_ExpiredWhateverAttempts ==
  \A w \in Workers :
    (Verified(w) /\ AfterExpiry(w)) => resp[w].outcome = "OTP_EXPIRED"

(* C5, amended: a verification after the stored expiry, of an OTP whose attempt
   counter is below 3, is answered OTP_EXPIRED whatever the code, with no token and
   no change of the record; with the counter at 3 or more the answer is
   OTP_MAX_ATTEMPTS instead. *)
C5_ExpiredBelowMax ==
  \A w \in Workers :
    (Verified(w) /\ AfterExpiry(w)) =>
      /\ ~resp[w].token
      /\ store[loc[w].user.userId] = loc[w].user
      /\ resp[w].outcome =
           IF OtpRead(w).attempts < 3 THEN "OTP_EXPIRED" ELSE "OTP_MAX_ATTEMPTS"

(* the right login code arrived too late, with attempts to spare *)
C5_Witness ==
  \E w \in Workers :
    /\ Verified(w) /\ AfterExpiry(w)
    /\ req[w].op = "verifyLoginOTP"
    /\ req[w].otp = OtpRead(w).code
    /\ OtpRead(w).attempts < 3
    /\ resp[w].outcome = "OTP_EXPIRED"

(* C6: a verification that reads an attempt counter of 3 or more is answered
   OTP_MAX_ATTEMPTS even when the code is the stored one, issues no token and
   leaves the record as it was. *)
C6_MaxAttempts ==
  \A w \in Workers :
    (Verified(w) /\ OtpRead(w).attempts >= 3) =>
      /\ resp[w].outcome = "OTP_MAX_ATTEMPTS"
      /\ resp[w].status = 429
      /\ ~resp[w].token
      /\ store[loc[w].user.userId] = loc[w].user

(* the right signup code, before its expiry, after three wrong ones *)
C6_Witness ==
  \E w \in Workers :
    /\ Verified(w) /\ ~AfterExpiry(w)
    /\ req[w].op = "verifyEmail"
    /\ OtpRead(w).attempts = 3
    /\ req[w].otp = OtpRead(w).code
    /\ resp[w].outcome = "OTP_MAX_ATTEMPTS"

(* C7, as stated: in every reachable state, concurrent verifications included, the
   signup OTP attempt counter and the step-up OTP attempt counter are at most 3. *)
C7_CountersAtMostMax ==
  \A u \in DOMAIN store :
    /\ store[u].otpAttempts <= 3
    /\ store[u].loginOTPAttempts <= 3

(* C8: loginHistory has at most 10 entries, in the order of the logins' times, and
   is the tail of the user's successful logins (direct or confirmed by OTP): of 11
   or more logins the oldest are the ones dropped. *)
C8_HistoryBounded ==
  \A u \in DOMAIN store :
    LET h == store[u].loginHistory
        all == logins[u]
        k == IF Len(all) <= 10 THEN Len(all) ELSE 10
    IN
    /\ Len(h) <= 10
    /\ Len(h) = k
    /\ \A i \in 1..Len(h) : h[i] = all[Len(all) - k + i]
    /\ \A i \in 1..(Len(h) - 1) : h[i].timestamp <= h[i + 1].timestamp

(* an 11th login was recorded, confirmed by OTP from another address than the 10th *)
C8_Witness ==
  \E u \in DOMAIN store :
    /\ Len(logins[u]) >= 11
    /\ Len(store[u].loginHistory) = 10
    /\ store[u].loginHistory[10].ip # store[u].loginHistory[9].ip
    /\ store[u].loginHistory[1] = logins[u][Len(logins[u]) - 9]

(* C9: a suspicious login that finds a pending step-up replaces its session id by a
   new one and stores the new OTP; no record carries a replaced session id again,
   and verifyLoginOTP with a replaced session id is answered NOT_FOUND without a
   token, whatever code it submits. *)
C9_SupersededUnresolvable ==
  /\ \A u \in DOMAIN store : store[u].pendingSessionId \notin superseded
  /\ \A w \in Workers :
       /\ (Done(w) /\ req[w].op = "verifyLoginOTP" /\ req[w].sessionId \in superseded) =>
            /\ resp[w].outcome = "NOT_FOUND"
            /\ ~resp[w].token
       /\ (/\ Assessed(w) /\ loc[w].cognitiveCheck.suspicious
           /\ loc[w].user.pendingSessionId # NoId) =>
            /\ store[loc[w].user.userId].pendingSessionId = resp[w].body.sessionId
            /\ resp[w].body.sessionId # loc[w].user.pendingSessionId
            /\ loc[w].user.pendingSessionId \in superseded
            /\ store[loc[w].user.userId].loginOTP = loc[w].otp

(* the replaced session id was tried with the code that is now stored *)
C9_Witness ==
  \E w \in Workers :
    /\ Done(w) /\ req[w].op = "verifyLoginOTP"
    /\ req[w].sessionId \in superseded
    /\ \E u \in DOMAIN store :
         /\ store[u].pendingSessionId # NoId
         /\ store[u].loginOTP = req[w].otp
    /\ resp[w].outcome = "NOT_FOUND"

(* C10, as stated: after a login answered AUTHENTICATED the record holds no pending
   step-up: no step-up OTP and no pending session id. *)
C10_NoPendingAfterLogin ==
  \A w \in Workers :
    (Assessed(w) /\ resp[w].outcome = "AUTHENTICATED") =>
      /\ store[loc[w].user.userId].pendingSessionId = NoId
      /\ store[loc[w].user.userId].loginOTP = Null

(* a signup OTP is pending: its code and expiry are present *)
SignupOtpPending(item) == item.otp # Null /\ item.otpExpiry # NoTime

(* C11, as stated: in every reachable state of a user record, under any interleaving
   of signup, resendOTP and verifyEmail, exactly one of "a signup OTP is pending"
   and "isEmailVerified" holds. *)
C11_PendingXorVerified ==
  \A u \in DOMAIN store : SignupOtpPending(store[u]) # store[u].isEmailVerified

(* C12, as stated: after any interleaving of signup requests, two concurrent signups
   for one email included, the table holds at most one record per email. *)
C12_OneRecordPerEmail ==
  \A u1, u2 \in DOMAIN store : store[u1].email = store[u2].email => u1 = u2

(* a login, direct or confirmed by OTP, that ended with a token *)
Committed(w) ==
  /\ Done(w)
  /\ req[w].op \in {"login", "verifyLoginOTP"}
  /\ resp[w].outcome = "AUTHENTICATED"

(* the history entry of a committed login *)
EntryOf(w) ==
  LET signals == IF req[w].op = "login"
                 THEN SignalsOf(req[w].event)
                 ELSE SignalsOf(sessions[req[w].sessionId].event)
  IN HistoryEntry(loc[w].now, signals.ip, signals.location, signals.device)

(* C13, as stated: when two logins of one user (direct or confirmed by OTP) are
   processed concurrently and both end with a token, loginHistory has an entry for
   each of them. *)
C13_NoAppendLost ==
  \A w1, w2 \in Workers :
    (/\ w1 # w2
     /\ Committed(w1) /\ Committed(w2)
     /\ loc[w1].user.userId = loc[w2].user.userId) =>
      LET h == store[loc[w1].user.userId].loginHistory IN
      \E j1, j2 \in 1..Len(h) :
        /\ j1 # j2
        /\ h[j1] = EntryOf(w1)
        /\ h[j2] = EntryOf(w2)

(* the worker's handler performs its table write in this step *)
Leaves(w, label) == pc[w] = label /\ pc'[w] # label

(* C14: every login that passed the rate-limit check appends its own timestamp to
   the loginAttempts stored at that moment, whatever other attempts were recorded
   since it read the record, and no other step of login, verifyLoginOTP, verifyEmail
   or resendOTP changes loginAttempts: the list grows by one per attempt that
   passed the check. *)
C14_AttemptsAppended ==
  [][\A w \in Workers :
       /\ Leaves(w, "login_record") =>
            store'[loc[w].user.userId].loginAttempts =
              Append(store[loc[w].user.userId].loginAttempts, loc[w].now)
       /\ (pc[w] # pc'[w] /\ ~Leaves(w, "login_record") /\ ~Leaves(w, "signup_put")) =>
            \A u \in DOMAIN store :
              store'[u].loginAttempts = store[u].loginAttempts]_vars

(* two logins read the same loginAttempts and both have recorded their attempt *)
C14_Witness ==
  \E w1, w2 \in Workers :
    /\ w1 # w2
    /\ req[w1].op = "login" /\ req[w2].op = "login"
    /\ FoundUser(w1) /\ FoundUser(w2)
    /\ loc[w1].compared /\ loc[w2].compared
    /\ loc[w1].user.userId = loc[w2].user.userId
    /\ loc[w1].user.loginAttempts = loc[w2].user.loginAttempts
    /\ Len(store[loc[w1].user.userId].loginAttempts) =
         Len(loc[w1].user.loginAttempts) + 2

(* the answer "Invalid credentials" *)
InvalidCredentials == Response(401, "INVALID_CREDENTIALS", FALSE, NullRec)

(* a login with email and password that found no record *)
LoginUnknown(w) ==
  /\ Done(w) /\ req[w].op = "login"
  /\ loc[w].scanned /\ loc[w].user = NullRec

(* a login with a wrong password that found a record *)
LoginWrongPassword(w) ==
  /\ Done(w) /\ req[w].op = "login"
  /\ FoundUser(w) /\ ~PasswordRight(w)

(* C15, as stated: login for an email without a record and login with a wrong
   password for an existing user get the same answer, INVALID_CREDENTIALS. *)
C15_SameAnswer ==
  \A w \in Workers :
    (LoginUnknown(w) \/ LoginWrongPassword(w)) => resp[w] = InvalidCredentials

(* C15, amended: login for an email without a record and login with a wrong password
   for an existing user with fewer than 5 attempts in the window get the same
   answer, INVALID_CREDENTIALS; with 5 or more attempts in the window the existing
   user's answer is RATE_LIMITED. *)
C15_SameAnswerUnlessLimited ==
  \A w \in Workers :
    /\ LoginUnknown(w) => resp[w] = InvalidCredentials
    /\ LoginWrongPassword(w) =>
         IF InWindow(loc[w].user.loginAttempts, loc[w].now) < 5
         THEN resp[w] = InvalidCredentials
         ELSE resp[w].outcome = "RATE_LIMITED" /\ resp[w].status = 429

(* a wrong password for an unverified user who is not limited *)
C15_Witness ==
  \E w \in Workers :
    /\ LoginWrongPassword(w)
    /\ ~loc[w].user.isEmailVerified
    /\ InWindow(loc[w].user.loginAttempts, loc[w].now) < 5
    /\ resp[w] = InvalidCredentials

(* a login that found a record whose email is not verified *)
LoginUnverified(w) ==
  /\ Done(w) /\ req[w].op = "login"
  /\ FoundUser(w) /\ ~loc[w].user.isEmailVerified

(* C16, as stated: for a user whose email is not verified, login with the right
   password is answered EMAIL_UNVERIFIED without a token and login with a wrong
   password is answered INVALID_CREDENTIALS. *)
C16_UnverifiedBlocked ==
  \A w \in Workers :
    LoginUnverified(w) =>
      IF PasswordRight(w)
      THEN resp[w].outcome = "EMAIL_UNVERIFIED" /\ ~resp[w].token
      ELSE resp[w].outcome = "INVALID_CREDENTIALS"

(* C16, amended: for a user whose email is not verified and who has fewer than 5
   attempts in the window, login with the right password is answered
   EMAIL_UNVERIFIED (403) without a token and without a risk assessment, and login
   with a wrong password is answered INVALID_CREDENTIALS; either way the record
   changes only by the attempt appended to loginAttempts. With 5 or more attempts in
   the window both are answered RATE_LIMITED and the record does not change. *)
C16_UnverifiedBlockedUnlessLimited ==
  \A w \in Workers :
    LoginUnverified(w) =>
      IF InWindow(loc[w].user.loginAttempts, loc[w].now) < 5
      THEN /\ IF PasswordRight(w)
              THEN resp[w].outcome = "EMAIL_UNVERIFIED" /\ resp[w].status = 403
              ELSE resp[w].outcome = "INVALID_CREDENTIALS" /\ resp[w].status = 401
           /\ ~resp[w].token
           /\ loc[w].compared
           /\ ~loc[w].assessed
           /\ store[loc[w].user.userId] =
                [loc[w].user EXCEPT !.loginAttempts = Append(@, loc[w].now)]
      ELSE /\ resp[w].outcome = "RATE_LIMITED"
           /\ ~resp[w].token
           /\ store[loc[w].user.userId] = loc[w].user

(* the right password of an unverified user who is not limited *)
C16_Witness ==
  \E w \in Workers :
    /\ LoginUnverified(w)
    /\ PasswordRight(w)
    /\ InWindow(loc[w].user.loginAttempts, loc[w].now) < 5
    /\ resp[w].outcome = "EMAIL_UNVERIFIED"

(* an assessment against a profile whose last login has a known country *)
KnownLastCountry(w) ==
  /\ pc[w] = "assessed"
  /\ loc[w].user.lastLoginLocation # NullRec
  /\ loc[w].user.lastLoginLocation.country # "unknown"

CountryDiffers(w) ==
  SignalsOf(req[w].event).location.country # loc[w].user.lastLoginLocation.country

Includes(reasons, reason) == \E i \in 1..Len(reasons) : reasons[i] = reason

(* C17: when the stored last-login location has a known country and the current
   country differs from it, the assessment is suspicious and names "Login from new
   location", whatever the device check and the time check return. *)
C17_NewCountrySuspicious ==
  \A w \in Workers :
    (KnownLastCountry(w) /\ CountryDiffers(w)) =>
      /\ loc[w].cognitiveCheck.suspicious
      /\ loc[w].cognitiveCheck.locationSuspicious
      /\ Includes(loc[w].cognitiveCheck.reasons, "Login from new location")

(* another country, once with the device and the time both as usual and once with
   both unusual *)
C17_Witness ==
  \E w1, w2 \in Workers :
    /\ KnownLastCountry(w1) /\ CountryDiffers(w1)
    /\ KnownLastCountry(w2) /\ CountryDiffers(w2)
    /\ ~loc[w1].cognitiveCheck.deviceSuspicious
    /\ ~loc[w1].cognitiveCheck.timeSuspicious
    /\ loc[w2].cognitiveCheck.deviceSuspicious
    /\ loc[w2].cognitiveCheck.timeSuspicious
    /\ loc[w1].cognitiveCheck.suspicious /\ loc[w2].cognitiveCheck.suspicious

ConfirmationFailures == {"OTP_INVALID", "OTP_EXPIRED", "OTP_MAX_ATTEMPTS", "NOT_FOUND"}

(* C18: no step of a verifyLoginOTP request that fails changes the table, except
   that the step answering OTP_INVALID adds one to loginOTPAttempts of the record it
   read; lastLogin and loginHistory stay as they were. *)
C18_FailedConfirmationFrame ==
  [][\A w \in Workers :
       (/\ pc[w] # pc'[w]
        /\ req'[w].op = "verifyLoginOTP"
        /\ \/ pc'[w] = "verifyLoginOTP_increment"
           \/ pc'[w] = "done" /\ resp'[w].outcome \in ConfirmationFailures) =>
         IF pc'[w] = "done" /\ resp'[w].outcome = "OTP_INVALID"
         THEN store' = [store EXCEPT ![loc[w].user.userId].loginOTPAttempts = @ + 1]
         ELSE store' = store]_vars

(* a wrong code was counted and nothing else changed *)
C18_Witness ==
  \E w \in Workers :
    /\ Done(w) /\ req[w].op = "verifyLoginOTP"
    /\ resp[w].outcome = "OTP_INVALID"
    /\ store[loc[w].user.userId] =
         [loc[w].user EXCEPT !.loginOTPAttempts = @ + 1]
    /\ loc[w].user.loginHistory # <<>>

(* lastLogin and the newest history entry describe the same login, or both are absent *)
LastLoginMatchesHistory(item) ==
  IF item.loginHistory = <<>>
  THEN item.lastLoginTime = NoTime /\ item.lastLoginIP = Null
  ELSE Last(item.loginHistory) =
         HistoryEntry(item.lastLoginTime, item.lastLoginIP, item.lastLoginLocation,
                      item.lastLoginDevice)

NoStepUp(item) ==
  /\ item.pendingSessionId = NoId
  /\ item.loginOTP = Null
  /\ item.loginOTPExpiry = NoTime

(* C19: in every reachable state, requests that fail part-way included, lastLogin
   and the newest loginHistory entry of a record describe the same login; a
   verifyLoginOTP step that writes the login also clears the step-up OTP and the
   pending session in that step, and the pending session of a verified record is
   cleared only by a step that writes the login of its snapshot. *)
C19_AtomicCommit ==
  /\ [](\A u \in DOMAIN store : LastLoginMatchesHistory(store[u]))
  /\ [][\A u \in DOMAIN store :
          /\ (\E w \in Workers :
                /\ Leaves(w, "verifyLoginOTP_commit")
                /\ loc[w].user.userId = u
                /\ store'[u] # store[u]) =>
               /\ NoStepUp(store'[u])
               /\ store'[u].lastLoginTime # store[u].lastLoginTime
                    \/ store'[u].loginHistory # store[u].loginHistory
          /\ (/\ store[u].pendingSessionId # NoId
              /\ store'[u].pendingSessionId = NoId
              /\ store'[u].isEmailVerified) =>
               /\ NoStepUp(store'[u])
               /\ store'[u].lastLoginIP = JSONparse(store[u].pendingSessionData).ip
               /\ store'[u].lastLoginLocation =
                    JSONparse(store[u].pendingSessionData).location
               /\ store'[u].lastLoginDevice =
                    JSONparse(store[u].pendingSessionData).device
               /\ LastLoginMatchesHistory(store'[u])]_vars

(* the confirmation was written and the request then failed *)
C19_Witness ==
  \E w \in Workers :
    /\ Done(w) /\ req[w].op = "verifyLoginOTP"
    /\ resp[w] = InternalError
    /\ loc[w].user.pendingSessionId # NoId
    /\ NoStepUp(store[loc[w].user.userId])
    /\ store[loc[w].user.userId].lastLoginTime = loc[w].now

(* a request the handlers reject as malformed *)
Malformed(request) ==
  CASE request.op = "signup" ->
         \/ request.email = Null \/ request.password = Null
         \/ request.email = BadEmail
         \/ request.password = ShortPassword
    [] request.op = "login" -> request.email = Null \/ request.password = Null
    [] request.op = "verifyEmail" -> request.email = Null \/ request.otp = Null
    [] request.op = "verifyLoginOTP" -> request.sessionId = NoId \/ request.otp = Null
    [] OTHER -> FALSE

(* C20: a malformed signup, login, verifyEmail or verifyLoginOTP request is answered
   400 in the step it arrives in, before any scan of the table, and the table is
   not changed. *)
C20_ValidationTouchesNothing ==
  [][\A w \in Workers :
       (pc[w] = "idle" /\ pc'[w] # "idle" /\ Malformed(req'[w])) =>
         /\ pc'[w] = "done"
         /\ resp'[w].outcome = "VALIDATION"
         /\ resp'[w].status = 400
         /\ ~resp'[w].token
         /\ ~loc'[w].scanned
         /\ store' = store
         /\ nextUuid' = nextUuid]_vars

(* a signup with a short password was rejected while the table holds a record *)
C20_Witness ==
  \E w \in Workers :
    /\ Done(w) /\ req[w].op = "signup"
    /\ req[w].password = ShortPassword
    /\ resp[w].outcome = "VALIDATION"
    /\ ~loc[w].scanned
    /\ DOMAIN store # {}

----------------------------------------------------------------------------
(* the handler has written an OTP and called sendSignupOTP or sendLoginOTP *)
Mailed(w) ==
  /\ Done(w)
  /\ req[w].op \in {"signup", "resendOTP", "login"}
  /\ "emailResult" \in DOMAIN loc[w]

(* the record the mailed OTP was written to *)
MailedUser(w) ==
  IF req[w].op = "signup" THEN loc[w].userId ELSE loc[w].user.userId

(* C21: once a signup, resendOTP or login request has written its OTP and called
   the mailer, the record holds the generated code, its expiry and an attempt
   counter of 0 (and, for login, the generated pending session) whether the mail
   was sent, failed or threw; until the expiry a verification with that code is
   accepted. *)
C21_DeliveryChangesNothing ==
  \A w \in Workers :
    Mailed(w) =>
      LET item == store[MailedUser(w)] IN
      IF req[w].op = "login"
      THEN /\ item.loginOTP = loc[w].otp
           /\ item.loginOTPExpiry = loc[w].otpExpiry
           /\ item.loginOTPAttempts = 0
           /\ item.pendingSessionId = loc[w].sessionId
           /\ JSONparse(item.pendingSessionData).timestamp = loc[w].now
           /\ \A t \in now..loc[w].otpExpiry :
                VerifyLoginOTPBranch(item, loc[w].otp, t) = "OK"
      ELSE /\ item.otp = loc[w].otp
           /\ item.otpExpiry = loc[w].otpExpiry
           /\ item.otpAttempts = 0
           /\ \A t \in now..loc[w].otpExpiry :
                VerifyEmailBranch(item, loc[w].otp, t) = "OK"

(* a resent code whose mail failed replaced a code with wrong attempts on it, and
   is still within its lifetime *)
C21_Witness ==
  \E w \in Workers :
    /\ Mailed(w) /\ req[w].op = "resendOTP"
    /\ loc[w].emailResult = "failed"
    /\ loc[w].user.otpAttempts > 0
    /\ store[MailedUser(w)].otp = loc[w].otp
    /\ now <= loc[w].otpExpiry

(* the response body carries an OTP code *)
CodeInResponse(w) ==
  /\ "otp" \in DOMAIN resp[w].body
  /\ resp[w].body.otp # Null

(* C22: the response of a signup that has called the mailer carries the generated
   code exactly when the mail was not delivered; the responses of login and of
   resendOTP carry no code, whatever the mailer did. *)
C22_CodeIffDeliveryFailed ==
  \A w \in Workers :
    Mailed(w) =>
      IF req[w].op = "signup"
      THEN /\ CodeInResponse(w) <=> loc[w].emailResult # "sent"
           /\ CodeInResponse(w) => resp[w].body.otp = loc[w].otp
      ELSE ~CodeInResponse(w)

----------------------------------------------------------------------------
(* the signup instance and the step-up instance of the OTP state of a record *)
SignupOtpOf(item) == <<item.otp, item.otpExpiry, item.otpAttempts>>

StepUpOtpOf(item) == <<item.loginOTP, item.loginOTPExpiry, item.loginOTPAttempts>>

(* a step of a request of one of the operations `ops` *)
StepOf(w, ops) == pc[w] # pc'[w] /\ req'[w].op \in ops

(* C23: no step of a verifyEmail or resendOTP request changes loginOTP,
   loginOTPExpiry or loginOTPAttempts of any record, and no step of a login or
   verifyLoginOTP request changes otp, otpExpiry or otpAttempts of any record. *)
C23_OtpInstancesIndependent ==
  [][\A w \in Workers :
       /\ StepOf(w, {"verifyEmail", "resendOTP"}) =>
            /\ DOMAIN store' = DOMAIN store
            /\ \A u \in DOMAIN store : StepUpOtpOf(store'[u]) = StepUpOtpOf(store[u])
       /\ StepOf(w, {"login", "verifyLoginOTP"}) =>
            /\ DOMAIN store' = DOMAIN store
            /\ \A u \in DOMAIN store : SignupOtpOf(store'[u]) = SignupOtpOf(store[u])]_vars

(* the signup code was resent, its counter reset, while a step-up code with wrong
   attempts on it stayed pending *)
C23_Witness ==
  \E w \in Workers :
    /\ Mailed(w) /\ req[w].op = "resendOTP"
    /\ loc[w].user.otpAttempts > 0
    /\ store[MailedUser(w)].otpAttempts = 0
    /\ store[MailedUser(w)].loginOTP # Null
    /\ store[MailedUser(w)].loginOTPAttempts > 0
    /\ StepUpOtpOf(store[MailedUser(w)]) = StepUpOtpOf(loc[w].user)

----------------------------------------------------------------------------
IsPrefix(s, t) == Len(s) <= Len(t) /\ SubSeq(t, 1, Len(s)) = s

(* C24: no step removes a record, and in every step the loginAttempts of every
   record before the step is a prefix of its loginAttempts after the step: signup
   for an email that has a record, resendOTP, verifyEmail, login and
   verifyLoginOTP only ever append to it. *)
C24_AttemptsAppendOnly ==
  [][\A u \in DOMAIN store :
       /\ u \in DOMAIN store'
       /\ IsPrefix(store[u].loginAttempts, store'[u].loginAttempts)]_vars

----------------------------------------------------------------------------
(* what a login that got past the rate limiter can answer *)
LoginOutcomes ==
  {"INVALID_CREDENTIALS", "EMAIL_UNVERIFIED", "STEP_UP_REQUIRED", "AUTHENTICATED"}

(* C25: a login that found a record and was not rate-limited has, from the moment
   bcrypt.compare has run, exactly one more timestamp in loginAttempts than it
   read, its own, whichever of INVALID_CREDENTIALS, EMAIL_UNVERIFIED,
   STEP_UP_REQUIRED and AUTHENTICATED it answers; before the attempt is recorded
   the password has not been compared, and a rate-limited login records nothing. *)
C25_EveryAttemptRecorded ==
  \A w \in Workers :
    (req[w].op = "login" /\ loc[w] # NullRec /\ FoundUser(w)) =>
      LET stored == store[loc[w].user.userId].loginAttempts
          read == loc[w].user.loginAttempts
      IN
      /\ pc[w] = "login_record" => ~loc[w].compared /\ stored = read
      /\ loc[w].compared => stored = Append(read, loc[w].now)
      /\ (Done(w) /\ resp[w].outcome \in LoginOutcomes) => loc[w].compared
      /\ (Done(w) /\ resp[w].outcome = "RATE_LIMITED") =>
           ~loc[w].compared /\ stored = read

(* a login with a wrong password and one on an unverified record were both counted:
   the attempt that was refused as unverified is the fifth in the window *)
C25_Witness ==
  \E w \in Workers :
    /\ Done(w) /\ req[w].op = "login"
    /\ resp[w].outcome = "EMAIL_UNVERIFIED"
    /\ InWindow(store[loc[w].user.userId].loginAttempts, now) = MAX_LOGIN_ATTEMPTS
    /\ store[loc[w].user.userId].loginAttempts =
         Append(loc[w].user.loginAttempts, loc[w].now)

----------------------------------------------------------------------------
(* the request of w has just read a record whose OTP (code, expiry, attempts) is
   unexpired, has attempts left and differs from the code of the request *)
WrongCodeRead(w, code, expiry, attempts) ==
  /\ pc[w] = "idle" /\ pc'[w] # "idle"
  /\ loc'[w].scanned /\ loc'[w].user # NullRec
  /\ attempts < MAX_OTP_ATTEMPTS
  /\ ~isOTPExpired(expiry, now)
  /\ code # req'[w].otp

(* a counter that is present before and after the step has gone down *)
Decreased(before, after) == before # NoNumber /\ after # NoNumber /\ after < before

(* C26: a verifyEmail or verifyLoginOTP request that reads an unexpired OTP with
   fewer than 3 attempts and carries another code goes on to its increment; that
   increment adds exactly 1 to the counter of that OTP (otpAttempts or
   loginOTPAttempts), changes nothing else in the table, and answers OTP_INVALID
   with attemptsRemaining = 3 - (attempts read + 1), which is at least 0.  A counter
   that is stored before and after a step goes down only in a step that generates
   a new OTP of its kind (signup and resendOTP; the step-up of login) or that
   accepts the code (the commits of verifyEmail and verifyLoginOTP). *)
C26_WrongCodeCountsOnce ==
  [][\A w \in Workers :
       /\ (/\ req'[w].op = "verifyEmail"
           /\ WrongCodeRead(w, loc'[w].user.otp, loc'[w].user.otpExpiry,
                            loc'[w].user.otpAttempts)
           /\ ~loc'[w].user.isEmailVerified) =>
            pc'[w] = "verifyEmail_increment"
       /\ (/\ req'[w].op = "verifyLoginOTP"
           /\ WrongCodeRead(w, loc'[w].user.loginOTP, loc'[w].user.loginOTPExpiry,
                            loc'[w].user.loginOTPAttempts)) =>
            pc'[w] = "verifyLoginOTP_increment"
       /\ Leaves(w, "verifyEmail_increment") =>
            /\ store' = [store EXCEPT ![loc[w].user.userId].otpAttempts = @ + 1]
            /\ resp'[w].outcome = "OTP_INVALID"
            /\ resp'[w].body.attemptsRemaining =
                 MAX_OTP_ATTEMPTS - (loc[w].user.otpAttempts + 1)
            /\ resp'[w].body.attemptsRemaining >= 0
       /\ Leaves(w, "verifyLoginOTP_increment") =>
            /\ store' = [store EXCEPT ![loc[w].user.userId].loginOTPAttempts = @ + 1]
            /\ resp'[w].outcome = "OTP_INVALID"
            /\ resp'[w].body.attemptsRemaining =
                 MAX_OTP_ATTEMPTS - (loc[w].user.loginOTPAttempts + 1)
            /\ resp'[w].body.attemptsRemaining >= 0
       /\ \A u \in DOMAIN store :
            /\ (pc[w] # pc'[w]
                /\ Decreased(store[u].otpAttempts, store'[u].otpAttempts)) =>
                 \/ Leaves(w, "signup_put") \/ Leaves(w, "resend_update")
                 \/ Leaves(w, "verifyEmail_commit")
            /\ (pc[w] # pc'[w]
                /\ Decreased(store[u].loginOTPAttempts, store'[u].loginOTPAttempts)) =>
                 Leaves(w, "login_stepup") \/ Leaves(w, "verifyLoginOTP_commit")]_vars

(* the third wrong signup code was counted and left no attempt, while the step-up
   counter of the same record stayed where it was *)
C26_Witness ==
  \E w \in Workers :
    /\ Done(w) /\ req[w].op = "verifyEmail"
    /\ resp[w].outcome = "OTP_INVALID"
    /\ resp[w].body.attemptsRemaining = 0
    /\ store[loc[w].user.userId].otpAttempts = MAX_OTP_ATTEMPTS
    /\ store[loc[w].user.userId].loginOTPAttempts = loc[w].user.loginOTPAttempts
    /\ store[loc[w].user.userId].loginOTPAttempts > 0

----------------------------------------------------------------------------
(* neither string contains the leading token of the other, case ignored *)
TokensDiffer(current, last) ==
  ~IncludesFirstWord(current, last) /\ ~IncludesFirstWord(last, current)

BrowserDiffers(w) ==
  TokensDiffer(SignalsOf(req[w].event).device.browser, loc[w].user.lastLoginDevice.browser)

OsDiffers(w) ==
  TokensDiffer(SignalsOf(req[w].event).device.os, loc[w].user.lastLoginDevice.os)

(* C27 as stated: the device check is suspicious only when the browser and the OS
   both differ from the stored ones, and not suspicious without a stored device. *)
C27_BothMustDiffer ==
  \A w \in Workers :
    pc[w] = "assessed" =>
      IF loc[w].user.lastLoginDevice = NullRec
      THEN ~loc[w].cognitiveCheck.deviceSuspicious
      ELSE loc[w].cognitiveCheck.deviceSuspicious => (BrowserDiffers(w) /\ OsDiffers(w))

(* C27, as the code has it: with a stored device the device check is suspicious
   exactly when the browser or the OS differs from the stored one under the
   leading-token test, one of them being enough; without a stored device it is not
   suspicious. *)
C27_EitherDiffers ==
  \A w \in Workers :
    pc[w] = "assessed" =>
      IF loc[w].user.lastLoginDevice = NullRec
      THEN ~loc[w].cognitiveCheck.deviceSuspicious
      ELSE loc[w].cognitiveCheck.deviceSuspicious <=> (BrowserDiffers(w) \/ OsDiffers(w))

(* another browser on the same OS, from the usual place at the usual time: the
   device check alone makes the login suspicious *)
C27_Witness ==
  \E w \in Workers :
    /\ pc[w] = "assessed"
    /\ loc[w].user.lastLoginDevice # NullRec
    /\ BrowserDiffers(w) /\ ~OsDiffers(w)
    /\ loc[w].cognitiveCheck.deviceSuspicious
    /\ ~loc[w].cognitiveCheck.locationSuspicious
    /\ ~loc[w].cognitiveCheck.timeSuspicious
    /\ loc[w].cognitiveCheck.reasons = <<"Login from new device or browser">>

----------------------------------------------------------------------------
(* the hours of the entries of a login history, and their sum *)
HoursOf(loginHistory) == [i \in 1..Len(loginHistory) |-> getHours(loginHistory[i].timestamp)]

RECURSIVE Sum(_)
Sum(hours) == IF hours = <<>> THEN 0 ELSE Head(hours) + Sum(Tail(hours))

Min(a, b) == IF a < b THEN a ELSE b

(* n times min(|h - m|, 24 - |h - m|), for the current hour h and the mean m of the
   n hours: the mean is a quotient, so both sides are multiplied by n *)
DeviationTimesN(h, hours) ==
  LET n == Len(hours)
      d == Abs(n * h - Sum(hours))
  IN Min(d, 24 * n - d)

(* C28: the time check of an assessment is not suspicious when loginHistory has
   fewer than 3 entries; with 3 or more it is suspicious exactly when
   min(|h - m|, 24 - |h - m|) > 6 for the current hour h and the arithmetic mean m
   of the hours of the history; "Login at unusual time" is among the reasons
   exactly then. *)
C28_TimeCheck ==
  \A w \in Workers :
    pc[w] = "assessed" =>
      LET hours == HoursOf(loc[w].user.loginHistory)
          unusual == /\ Len(hours) >= 3
                     /\ DeviationTimesN(getHours(loc[w].now), hours) > 6 * Len(hours)
      IN /\ loc[w].cognitiveCheck.timeSuspicious <=> unusual
         /\ Includes(loc[w].cognitiveCheck.reasons, "Login at unusual time") <=> unusual

(* three logins at hour 9 and an assessment at hour 21: deviation 12 *)
C28_Witness ==
  \E w \in Workers :
    /\ pc[w] = "assessed"
    /\ HoursOf(loc[w].user.loginHistory) = <<9, 9, 9>>
    /\ getHours(loc[w].now) = 21
    /\ DeviationTimesN(21, <<9, 9, 9>>) = 12 * 3
    /\ loc[w].cognitiveCheck.timeSuspicious

----------------------------------------------------------------------------
(* the attempts a check has read that are strictly later than now minus the window *)
CountOf(w) ==
  Cardinality({i \in 1..Len(loc[w].user.loginAttempts) :
                 loc[w].user.loginAttempts[i] > loc[w].now - req[w].windowMinutes})

Max(a, b) == IF a > b THEN a ELSE b

(* limited and remainingAttempts are the functions of the count the contract names *)
ByCount(w) ==
  /\ loc[w].rateLimitCheck.limited <=> CountOf(w) >= req[w].maxAttempts
  /\ loc[w].rateLimitCheck.remainingAttempts = Max(0, req[w].maxAttempts - CountOf(w))
  /\ loc[w].rateLimitCheck.remainingAttempts >= 0
  /\ loc[w].rateLimitCheck.limited <=> loc[w].rateLimitCheck.remainingAttempts = 0

(* an empty or absent sequence: not limited, every attempt remaining *)
EmptyAnswer(w) ==
  loc[w].user.loginAttempts = <<>> =>
    /\ ~loc[w].rateLimitCheck.limited
    /\ loc[w].rateLimitCheck.remainingAttempts = req[w].maxAttempts

(* C29 as stated: for every attempts sequence, window and maximum, limited is
   count >= maxAttempts and remainingAttempts is max(0, maxAttempts - count), hence
   never negative and 0 exactly when limited; an empty sequence gives limited =
   false and remainingAttempts = maxAttempts. *)
C29_EveryMaximum ==
  \A w \in Workers : pc[w] = "checked" => ByCount(w) /\ EmptyAnswer(w)

(* C29 for the inputs on which the two halves agree: for every attempts sequence
   and window, and every maximum of at least 1 or sequence that is not empty,
   limited is count >= maxAttempts and remainingAttempts is max(0, maxAttempts -
   count), never negative and 0 exactly when limited; an empty sequence gives
   limited = false and remainingAttempts = maxAttempts whatever the maximum. *)
C29_PositiveMaximum ==
  \A w \in Workers :
    pc[w] = "checked" =>
      /\ (req[w].maxAttempts >= 1 \/ loc[w].user.loginAttempts # <<>>) => ByCount(w)
      /\ EmptyAnswer(w)

(* more attempts in the window than the maximum of five: limited, and the
   remaining attempts stop at 0 *)
C29_Witness ==
  \E w \in Workers :
    /\ pc[w] = "checked"
    /\ req[w].maxAttempts = MAX_LOGIN_ATTEMPTS
    /\ CountOf(w) > req[w].maxAttempts
    /\ loc[w].rateLimitCheck.limited
    /\ loc[w].rateLimitCheck.remainingAttempts = 0

----------------------------------------------------------------------------
(* how often `reason` occurs in `reasons` *)
Occurrences(reasons, reason) == Cardinality({i \in 1..Len(reasons) : reasons[i] = reason})

ReasonLabels ==
  {"Login from new location", "Login from new device or browser", "Login at unusual time"}

(* C30: in every assessment, suspicious is the disjunction of locationSuspicious,
   deviceSuspicious and timeSuspicious; reasons holds "Login from new location",
   "Login from new device or browser" and "Login at unusual time" once each for
   the checks that triggered, nothing for the others and nothing else, so reasons
   is non-empty exactly when suspicious is true. *)
C30_VerdictAndReasons ==
  \A w \in Workers :
    pc[w] = "assessed" =>
      LET cc == loc[w].cognitiveCheck
          expected(flag) == IF flag THEN 1 ELSE 0
      IN /\ cc.suspicious <=>
              (cc.locationSuspicious \/ cc.deviceSuspicious \/ cc.timeSuspicious)
         /\ Occurrences(cc.reasons, "Login from new location") =
              expected(cc.locationSuspicious)
         /\ Occurrences(cc.reasons, "Login from new device or browser") =
              expected(cc.deviceSuspicious)
         /\ Occurrences(cc.reasons, "Login at unusual time") =
              expected(cc.timeSuspicious)
         /\ \A i \in 1..Len(cc.reasons) : cc.reasons[i] \in ReasonLabels
         /\ cc.reasons # <<>> <=> cc.suspicious

(* only the time check triggered: one reason, and the login is suspicious *)
C30_Witness ==
  \E w \in Workers :
    /\ pc[w] = "assessed"
    /\ loc[w].cognitiveCheck.timeSuspicious
    /\ ~loc[w].cognitiveCheck.locationSuspicious
    /\ ~loc[w].cognitiveCheck.deviceSuspicious
    /\ loc[w].cognitiveCheck.reasons = <<"Login at unusual time">>
    /\ loc[w].cognitiveCheck.suspicious

(* a resendOTP that found a record *)
Resent(w) == Done(w) /\ req[w].op = "resendOTP" /\ FoundUser(w)

(* a verifyEmail that found a record *)
EmailChecked(w) == Done(w) /\ req[w].op = "verifyEmail" /\ FoundUser(w)

(* C31: resendOTP on an unverified record draws a code and an expiry 5 minutes
   ahead and its update stores them with the attempt counter at 0, whatever the
   counter and the expiry were; verifyEmail answers EMAIL_VERIFIED exactly when the
   record it read is unverified, has fewer than 3 attempts, is not past its expiry
   and holds the submitted code, so the stored (new) code is accepted and any other
   code is not; resendOTP on a verified record is answered ALREADY_VERIFIED (400)
   and leaves the record as it was. *)
C31_ResendRenews ==
  /\ [](\A w \in Workers :
          /\ (Resent(w) /\ loc[w].user.isEmailVerified) =>
               /\ resp[w].outcome = "ALREADY_VERIFIED"
               /\ resp[w].status = 400
               /\ ~resp[w].token
               /\ store[loc[w].user.userId] = loc[w].user
          /\ (Resent(w) /\ ~loc[w].user.isEmailVerified) =>
               LET item == store[loc[w].user.userId] IN
               /\ item.otp = loc[w].otp
               /\ item.otpExpiry = loc[w].otpExpiry
               /\ item.otpAttempts = 0
               /\ ~item.isEmailVerified
          /\ EmailChecked(w) =>
               ( resp[w].outcome = "EMAIL_VERIFIED"
                 <=> /\ ~loc[w].user.isEmailVerified
                     /\ loc[w].user.otpAttempts < 3
                     /\ loc[w].user.otpExpiry # NoTime
                     /\ loc[w].now <= loc[w].user.otpExpiry
                     /\ loc[w].user.otp = req[w].otp ))
  /\ [][\A w \in Workers :
          (pc[w] = "idle" /\ pc'[w] = "resend_update") =>
            /\ loc'[w].otp \in Codes
            /\ loc'[w].otpExpiry = now + 5]_vars

(* a code was resent for a record whose counter had reached 3: the record holds
   another code than before, with the counter at 0 *)
C31_Witness ==
  \E w \in Workers :
    /\ Resent(w) /\ ~loc[w].user.isEmailVerified
    /\ loc[w].user.otpAttempts = 3
    /\ store[loc[w].user.userId].otp # loc[w].user.otp
    /\ store[loc[w].user.userId].otpAttempts = 0
    /\ resp[w].outcome = "OTP_RESENT"

(* the records that carry a session id *)
HoldersOf(table, sessionId) ==
  {u \in DOMAIN table : table[u].pendingSessionId = sessionId}

(* C32: with one request at a time a step-up OTP is used once: the update of a
   successful verifyLoginOTP takes the session id off the record, no later write
   puts a session id that was handed out before on a record, and verifyLoginOTP
   with a session id that no record carries is answered NOT_FOUND (404) whatever
   its code, without a token and without a write. *)
C32_SingleUse ==
  [][\A w \in Workers :
       /\ (Leaves(w, "verifyLoginOTP_commit") /\ resp'[w].token) =>
            /\ req[w].sessionId \in DOMAIN sessions
            /\ HoldersOf(store, req[w].sessionId) = {loc[w].user.userId}
            /\ HoldersOf(store', req[w].sessionId) = {}
       /\ \A s \in DOMAIN sessions :
            HoldersOf(store', s) \subseteq HoldersOf(store, s)
       /\ (/\ pc[w] = "idle" /\ pc'[w] # "idle"
           /\ req'[w].op = "verifyLoginOTP"
           /\ req'[w].sessionId # NoId /\ req'[w].otp # Null
           /\ HoldersOf(store, req'[w].sessionId) = {}) =>
            /\ pc'[w] = "done"
            /\ resp'[w].outcome = "NOT_FOUND"
            /\ resp'[w].status = 404
            /\ ~resp'[w].token
            /\ store' = store]_vars

(* a session that was confirmed is tried again and is not found *)
C32_Witness ==
  \E w \in Workers :
    /\ Done(w) /\ req[w].op = "verifyLoginOTP"
    /\ resp[w].outcome = "NOT_FOUND"
    /\ req[w].sessionId \in DOMAIN sessions \ superseded
    /\ \E u \in DOMAIN store :
         /\ sessions[req[w].sessionId].userId = u
         /\ store[u].isEmailVerified
         /\ store[u].loginOTP = Null
         /\ logins[u] # <<>>
         /\ Last(logins[u]).timestamp >= StartTime
         /\ Last(logins[u]).ip = SignalsOf(sessions[req[w].sessionId].event).ip
         /\ Last(logins[u]).ip # logins[u][1].ip

(* C33, as stated: when two verifyLoginOTP requests with the same session id and the
   correct code have both read the record before either writes, at most one of
   them ends with a token, and loginHistory gains at most one entry for that
   step-up. *)
C33_OneTokenPerStepUp ==
  \A w1, w2 \in Workers :
    (/\ w1 # w2
     /\ Done(w1) /\ req[w1].op = "verifyLoginOTP" /\ FoundUser(w1)
     /\ Done(w2) /\ req[w2].op = "verifyLoginOTP" /\ FoundUser(w2)
     /\ req[w1].sessionId = req[w2].sessionId
     /\ loc[w1].user = loc[w2].user
     /\ req[w1].otp = loc[w1].user.loginOTP
     /\ req[w2].otp = loc[w2].user.loginOTP) =>
      /\ ~(resp[w1].token /\ resp[w2].token)
      /\ Len(store[loc[w1].user.userId].loginHistory)
           <= Len(loc[w1].user.loginHistory) + 1

(* C34, as stated: when a verifyLoginOTP for session S1 has read the record and a
   suspicious login of the same user then replaces S1 by S2, the confirmation of
   S1, committing after the replacement, ends without a token and leaves the
   pending step-up of S2 as the login stored it: its OTP, expiry, attempt counter,
   session id and session data. *)
C34_ReplacedSessionHarmless ==
  \A w1, w2 \in Workers :
    (/\ w1 # w2
     /\ Done(w1) /\ req[w1].op = "verifyLoginOTP" /\ FoundUser(w1)
     /\ req[w1].otp = loc[w1].user.loginOTP
     /\ req[w1].sessionId \in superseded
     /\ Assessed(w2) /\ resp[w2].outcome = "STEP_UP_REQUIRED"
     /\ loc[w2].user.userId = loc[w1].user.userId
     /\ loc[w2].user.pendingSessionId = req[w1].sessionId) =>
      LET item == store[loc[w1].user.userId] IN
      /\ ~resp[w1].token
      /\ item.pendingSessionId = loc[w2].sessionId
      /\ item.loginOTP = loc[w2].otp
      /\ item.loginOTPExpiry = loc[w2].otpExpiry
      /\ item.loginOTPAttempts = 0
      /\ item.pendingSessionData # Null
      /\ JSONparse(item.pendingSessionData).ip = SignalsOf(req[w2].event).ip

(* C35, as stated: under any interleaving of concurrent logins of one user, the
   attempts that passed the rate-limit check and went on to bcrypt.compare (each of
   them recorded in loginAttempts before the comparison) number at most 5 inside
   any 15-minute window. *)
C35_AtMostFivePerWindow ==
  \A u \in DOMAIN store :
    \A t \in StartTime..now :
      LET attempts == store[u].loginAttempts IN
      Cardinality({i \in 1..Len(attempts) :
                     attempts[i] > t - 15 /\ attempts[i] <= t}) <= 5

(* a login that found a record *)
LoginChecked(w) == Done(w) /\ req[w].op = "login" /\ FoundUser(w)

(* C36: a login answered RATE_LIMITED leaves loginAttempts as it read it; every
   timestamp in loginAttempts belongs to an attempt that found fewer than 5
   earlier attempts inside its own 15-minute window; and a login that reads a
   record whose attempts are all 15 minutes old or older is not answered
   RATE_LIMITED, however many logins were turned away in between. *)
C36_LockoutNotProlonged ==
  /\ \A w \in Workers :
       LoginChecked(w) =>
         /\ resp[w].outcome = "RATE_LIMITED" =>
              store[loc[w].user.userId].loginAttempts = loc[w].user.loginAttempts
         /\ (\A i \in 1..Len(loc[w].user.loginAttempts) :
               loc[w].user.loginAttempts[i] <= loc[w].now - 15) =>
              resp[w].outcome # "RATE_LIMITED"
  /\ \A u \in DOMAIN store :
       LET attempts == store[u].loginAttempts IN
       \A i \in 1..Len(attempts) :
         Cardinality({j \in 1..(i - 1) : attempts[j] > attempts[i] - 15}) < 5

(* the window was full until 5 minutes ago and the run's earlier requests added
   nothing to it: this login is let through to the password check *)
C36_Witness ==
  \E w \in Workers :
    /\ LoginChecked(w)
    /\ reqLeft = 0
    /\ InWindow(loc[w].user.loginAttempts, loc[w].now - TickMinutes) >= 5
    /\ InWindow(loc[w].user.loginAttempts, loc[w].now) = 0
    /\ loc[w].compared
    /\ Len(store[loc[w].user.userId].loginAttempts)
         = Len(loc[w].user.loginAttempts) + 1

(* C37: in every reachable state, under any order and interleaving of the
   handlers, a record with a non-empty loginHistory has lastLoginTime, lastLoginIP,
   lastLoginLocation and lastLoginDevice equal to the timestamp, ip, location and
   device of the newest entry of loginHistory. *)
C37_LastLoginIsNewestEntry ==
  \A u \in DOMAIN store :
    store[u].loginHistory # <<>> =>
      LET newest == store[u].loginHistory[Len(store[u].loginHistory)] IN
      /\ store[u].lastLoginTime = newest.timestamp
      /\ store[u].lastLoginIP = newest.ip
      /\ store[u].lastLoginLocation = newest.location
      /\ store[u].lastLoginDevice = newest.device

(* a confirmed step-up and a direct login that read the same record have both
   written their login *)
C37_Witness ==
  \E w1, w2 \in Workers :
    /\ Confirmed(w1)
    /\ Done(w2) /\ req[w2].op = "login" /\ resp[w2].outcome = "AUTHENTICATED"
    /\ loc[w1].user.userId = loc[w2].user.userId
    /\ loc[w1].user.loginHistory = loc[w2].user.loginHistory
    /\ EntryOf(w1) # EntryOf(w2)
    /\ Last(store[loc[w1].user.userId].loginHistory) \in {EntryOf(w1), EntryOf(w2)}

(* the request in the worker's hands carries neither the password of the record
   nor the signup or step-up code stored on it *)
Stranger(w, item) ==
  /\ req[w].op \in {"signup", "resendOTP", "verifyEmail", "login", "verifyLoginOTP"}
  /\ req[w].op \in {"signup", "login"} =>
       bcryptHash(req[w].password) # item.passwordHash
  /\ req[w].op = "verifyEmail" => req[w].otp # item.otp
  /\ req[w].op = "verifyLoginOTP" => req[w].otp # item.loginOTP

(* C38, as stated: on a record whose email is verified, no step of a signup,
   resendOTP, verifyEmail, login or verifyLoginOTP request that carries neither the
   record's password nor a code stored for it changes the record's passwordHash
   or its isEmailVerified flag, or ends with a token, whatever the mailer does. *)
C38_StrangerChangesNothing ==
  [][\A w \in Workers : \A u \in DOMAIN store :
       (/\ pc[w] # pc'[w] /\ pc[w] \notin {"idle", "done"}
        /\ store[u].isEmailVerified
        /\ store[u].email = TheEmail
        /\ Stranger(w, store[u])) =>
         /\ store'[u].passwordHash = store[u].passwordHash
         /\ store'[u].isEmailVerified
         /\ ~resp'[w].token]_vars

(* a profile that has never logged in: no last login, no history *)
NeverLoggedIn(item) ==
  /\ item.lastLoginTime = NoTime
  /\ item.lastLoginIP = Null
  /\ item.lastLoginLocation = NullRec
  /\ item.lastLoginDevice = NullRec
  /\ item.loginHistory = <<>>

(* C39: performCognitiveCheck on a profile with no last login and an empty
   loginHistory reports nothing suspicious and no reason, whatever the request's
   address, device and time of day; the login of such a user that passed the rate
   limit, the password and the verification flag is answered AUTHENTICATED with a
   token and writes the login, without a step-up. *)
C39_FirstLoginNotSuspicious ==
  \A w \in Workers :
    /\ ((pc[w] = "assessed" \/ Assessed(w)) /\ NeverLoggedIn(loc[w].user)) =>
         /\ ~loc[w].cognitiveCheck.suspicious
         /\ ~loc[w].cognitiveCheck.locationSuspicious
         /\ ~loc[w].cognitiveCheck.deviceSuspicious
         /\ ~loc[w].cognitiveCheck.timeSuspicious
         /\ loc[w].cognitiveCheck.reasons = <<>>
    /\ (Assessed(w) /\ NeverLoggedIn(loc[w].user)) =>
         LET item == store[loc[w].user.userId] IN
         /\ resp[w].outcome = "AUTHENTICATED"
         /\ resp[w].status = 200
         /\ resp[w].token
         /\ item.pendingSessionId = loc[w].user.pendingSessionId
         /\ item.loginOTP = loc[w].user.loginOTP
         /\ item.lastLoginIP = SignalsOf(req[w].event).ip
         /\ Len(item.loginHistory) = 1

(* the first login of a user who has just verified their email, from an address
   abroad, has been answered *)
C39_Witness ==
  \E w \in Workers :
    /\ Assessed(w) /\ NeverLoggedIn(loc[w].user)
    /\ SignalsOf(req[w].event).location.country = "FR"
    /\ resp[w].outcome = "AUTHENTICATED"

====
